---- MODULE Spec2Model ----
(***************************************************************************)
(* Multi-slot DCA strategy engine (hbiblia/TradingView, Rust).             *)
(*                                                                         *)
(* The model follows src/src/main.rs (run_strategy_engine, handle_command, *)
(* evaluate_slot), src/src/strategy/dca.rs (DcaStrategy) and               *)
(* src/src/ui/tui.rs (Tui::handle_key).                                    *)
(*                                                                         *)
(* Numbers.  f64 amounts are modelled as exact integers: prices and quote  *)
(* amounts are whole units, chosen so that amount / price is whole.  Every *)
(* percentage comparison of the code, a / b * 100 >= pct, is evaluated     *)
(* exactly by cross-multiplication, a * 100 >= pct * b (b > 0); floating   *)
(* point rounding is not modelled.  pnl is carried in thousandths          *)
(* (pnl * 1000) so that the 0.999 / 1.001 fee factors stay exact.          *)
(*                                                                         *)
(* Option<T> is modelled as a sequence: None = << >>, Some(x) = <<x>>.     *)
(* Time is a whole number of minutes since the process started.            *)
(***************************************************************************)
EXTENDS Integers, Sequences, FiniteSets, TLC

VARIABLES
    slots,          \* AppState.slots: Seq of StrategySlot (strategy fields inlined)
    selected_slot,  \* AppState.selected_slot (0-based index, as in the code)
    prices,         \* AppState.prices: symbol -> last price (0 = no row yet)
    ui_mode,        \* AppState.ui_mode: <<tag, data...>>
    next_slot_id,   \* AppState.next_slot_id
    cmdq,           \* the mpsc channel UI -> engine (cmd_tx / cmd_rx)
    now,            \* the wall clock, in minutes
    pc,             \* "boot": main() has not run; then where
                    \* run_strategy_engine is: "select" | "order"
    tickIds,        \* the ids still to evaluate in the current strategy tick
    inflight,       \* orders sent to the exchange whose result is not yet known
    snapshot,       \* the snapshot file strategy_state.json (Seq of StrategySnapshot)
    halt,           \* history: [on, why]; why = {<<slot id, why the engine last
                    \* halted it>>}, recorded only in the runs where on is TRUE
    config,         \* config.dca as read at startup (base_config): direction,
                    \* auto_restart, auto_flip
    prices_24h,     \* AppState.prices, the other columns of each row:
                    \* symbol -> [change_24h_pct, high_24h, low_24h]
    alert_levels,   \* AppState.alert_levels: symbol -> Option<AlertLevel>
    log,            \* AppState.log: the lines log_alert wrote, <<symbol, kind, time>>
    mutex,          \* the Mutex around AppState: [owner, ops]; owner is the task
                    \* that holds it, ops the lock operations and I/O each task
                    \* still has to do in the handler it is running
    confirm_for     \* history: [on, id]; id = the slot that was selected when
                    \* OpenConfirmClose opened the overlay, recorded only in the
                    \* runs where on is TRUE

vars == <<slots, selected_slot, prices, ui_mode, next_slot_id, cmdq, now, pc,
          tickIds, inflight, snapshot, halt, config, prices_24h, alert_levels, log, mutex, confirm_for>>

----------------------------------------------------------------------------
(* Bounds of the model *)

MaxTime == 2        \* the clock runs 0..MaxTime
MaxQueue == 1       \* commands waiting in the channel (the code's capacity is 16)
MinutesPerDay == 2  \* length of a calendar day in clock units (scaled down)

(* Program constants *)

MAX_SLOTS == 4
PriceTroughUnset == 1000000   \* stands for f64::MAX, above every price

(* Configuration (config.toml, read once at startup) *)

quote_amount == 2000
interval_minutes == 1
price_drop_trigger == 10
max_orders == 2
take_profit_pct == 20
stop_loss_pct == 30
trailing_tp_pct == 10
max_daily_spend == 4000

Symbols == {"BTCUSDT"}
ConfigSymbol == "BTCUSDT"
PriceValues == {80, 100, 125}

None == << >>
Some(x) == <<x>>

----------------------------------------------------------------------------
(* Direction (config.rs) *)

flip(d) == IF d = "Long" THEN "Short" ELSE "Long"

----------------------------------------------------------------------------
(* DcaStrategy: metrics (dca.rs 82-126).  s is a slot record. *)

RECURSIVE SumCost(_)
SumCost(ts) == IF ts = << >> THEN 0 ELSE Head(ts).cost + SumCost(Tail(ts))

RECURSIVE SumQty(_)
SumQty(ts) == IF ts = << >> THEN 0 ELSE Head(ts).quantity + SumQty(Tail(ts))

RECURSIVE SumPrice(_)
SumPrice(ts) == IF ts = << >> THEN 0 ELSE Head(ts).buy_price + SumPrice(Tail(ts))

\* a total that adds up the entry prices, not the costs
total_invested_of_prices(s) == SumPrice(s.trades)

total_invested(s) == SumCost(s.trades)

total_quantity(s) == SumQty(s.trades)

\* average_cost (dca.rs 81-88) as the exact fraction <<numerator, denominator>>
average_cost(s) ==
    LET total_qty == total_quantity(s)
    IN  IF total_qty = 0 THEN <<0, 1>>
        ELSE <<SumCost(s.trades), total_qty>>

\* a pnl that leaves the closing fee out
pnl_without_fee(s, current_price) ==
    LET total_qty == total_quantity(s)
        current_value == total_qty * current_price
        invested == total_invested(s)
    IN  IF total_qty = 0 THEN 0
        ELSE IF s.direction = "Long"
             THEN current_value * 1000 - invested * 1000
             ELSE invested * 1000 - current_value * 1000

\* a pnl that reads a Short position as a Long one
pnl_as_long(s, current_price) ==
    LET total_qty == total_quantity(s)
        current_value == total_qty * current_price
        invested == total_invested(s)
    IN  IF total_qty = 0 THEN 0
        ELSE current_value * 999 - invested * 1000

\* pnl * 1000
pnl(s, current_price) ==
    LET total_qty == total_quantity(s)
        current_value == total_qty * current_price
        invested == total_invested(s)
    IN  IF total_qty = 0 THEN 0
        ELSE IF s.direction = "Long"
             THEN current_value * 999 - invested * 1000
             ELSE invested * 1000 - current_value * 1001

\* pnl_pct(price) >= pct, i.e. pnl / invested * 100 >= pct (pct a whole percent)
pnl_pct_ge(s, current_price, pct) ==
    LET invested == total_invested(s)
    IN  IF invested = 0 THEN 0 >= pct
        ELSE pnl(s, current_price) * 100 >= pct * invested * 1000

\* pnl_pct(price) > 0.05
pnl_pct_gt_margin(s, current_price) ==
    LET invested == total_invested(s)
    IN  IF invested = 0 THEN FALSE
        ELSE pnl(s, current_price) * 2 > invested

\* pnl_pct in thousandths of a percent, truncated (for the sale result shown)
pnl_pct(s, current_price) ==
    LET invested == total_invested(s)
    IN  IF invested = 0 THEN 0
        ELSE (pnl(s, current_price) * 100) \div invested

----------------------------------------------------------------------------
(* DcaStrategy: decisions (dca.rs 133-299) *)

Day(t) == 1 + (t \div MinutesPerDay)

\* a day change that moves the recorded day and keeps the day's spending
tick_keeps_spent(s, t) ==
    IF Day(t) # s.last_reset_day
    THEN [s EXCEPT !.last_reset_day = Day(t)]
    ELSE s

\* next_buy_in_secs, the countdown tick() also refreshes for the display, is
\* not modelled: no decision reads it
tick(s, t) ==
    IF Day(t) # s.last_reset_day
    THEN [s EXCEPT !.daily_spent = 0, !.last_reset_day = Day(t)]
    ELSE s

\* a price trigger that measures a drop whatever the direction
should_buy_drop_only(s, current_price, t, max_daily) ==
    IF s.state # "Running" THEN FALSE
    ELSE IF Len(s.trades) >= max_orders THEN FALSE
    ELSE IF s.daily_spent + s.quote_amount > max_daily THEN FALSE
    ELSE IF s.last_buy_time = None THEN FALSE
    ELSE IF t - s.last_buy_time[1] >= interval_minutes THEN TRUE
    ELSE IF price_drop_trigger > 0 /\ s.last_buy_price # None
            /\ s.last_buy_price[1] > 0
         THEN (s.last_buy_price[1] - current_price) * 100
                 >= price_drop_trigger * s.last_buy_price[1]
         ELSE FALSE

\* a daily gate that looks at what is spent, not at what the order would add
should_buy_spent_only(s, current_price, t, max_daily) ==
    IF s.state # "Running" THEN FALSE
    ELSE IF Len(s.trades) >= max_orders THEN FALSE
    ELSE IF s.daily_spent > max_daily THEN FALSE
    ELSE IF s.last_buy_time = None THEN FALSE
    ELSE IF t - s.last_buy_time[1] >= interval_minutes THEN TRUE
    ELSE IF price_drop_trigger > 0 /\ s.last_buy_price # None
            /\ s.last_buy_price[1] > 0
         THEN LET last_price == s.last_buy_price[1]
              IN  IF s.direction = "Long"
                  THEN (last_price - current_price) * 100
                          >= price_drop_trigger * last_price
                  ELSE (current_price - last_price) * 100
                          >= price_drop_trigger * last_price
         ELSE FALSE

\* an entry gate that does not count the trades held
should_buy_no_max(s, current_price, t, max_daily) ==
    IF s.state # "Running" THEN FALSE
    ELSE IF s.daily_spent + s.quote_amount > max_daily THEN FALSE
    ELSE IF s.last_buy_time = None THEN FALSE
    ELSE IF t - s.last_buy_time[1] >= interval_minutes THEN TRUE
    ELSE IF price_drop_trigger > 0 /\ s.last_buy_price # None
            /\ s.last_buy_price[1] > 0
         THEN LET last_price == s.last_buy_price[1]
              IN  IF s.direction = "Long"
                  THEN (last_price - current_price) * 100
                          >= price_drop_trigger * last_price
                  ELSE (current_price - last_price) * 100
                          >= price_drop_trigger * last_price
         ELSE FALSE

\* an entry gate that also wants the cached balance to cover the order
should_buy_with_funds(s, current_price, t, max_daily) ==
    IF s.state # "Running" THEN FALSE
    ELSE IF Len(s.trades) >= max_orders THEN FALSE
    ELSE IF s.daily_spent + s.quote_amount > max_daily THEN FALSE
    ELSE IF s.quote_balance < s.quote_amount THEN FALSE
    ELSE IF s.last_buy_time = None THEN FALSE
    ELSE IF t - s.last_buy_time[1] >= interval_minutes THEN TRUE
    ELSE IF price_drop_trigger > 0 /\ s.last_buy_price # None
            /\ s.last_buy_price[1] > 0
         THEN LET last_price == s.last_buy_price[1]
              IN  IF s.direction = "Long"
                  THEN (last_price - current_price) * 100
                          >= price_drop_trigger * last_price
                  ELSE (current_price - last_price) * 100
                          >= price_drop_trigger * last_price
         ELSE FALSE

should_buy(s, current_price, t, max_daily) ==
    IF s.state # "Running" THEN FALSE
    ELSE IF Len(s.trades) >= max_orders THEN FALSE
    ELSE IF s.daily_spent + s.quote_amount > max_daily THEN FALSE
    ELSE IF s.last_buy_time = None THEN FALSE
    ELSE IF t - s.last_buy_time[1] >= interval_minutes THEN TRUE
    ELSE IF price_drop_trigger > 0 /\ s.last_buy_price # None
            /\ s.last_buy_price[1] > 0
         THEN LET last_price == s.last_buy_price[1]
              IN  IF s.direction = "Long"
                  THEN (last_price - current_price) * 100
                          >= price_drop_trigger * last_price
                  ELSE (current_price - last_price) * 100
                          >= price_drop_trigger * last_price
         ELSE FALSE

\* an update that tracks the extremes of a slot with no position too
update_price_peak_always(s, price) ==
    IF s.direction = "Long"
    THEN IF price > s.price_peak THEN [s EXCEPT !.price_peak = price] ELSE s
    ELSE IF price < s.price_trough THEN [s EXCEPT !.price_trough = price] ELSE s

\* an update that makes the extreme follow the price
update_price_peak_follows(s, price) ==
    IF s.trades # << >>
    THEN IF s.direction = "Long"
         THEN [s EXCEPT !.price_peak = price]
         ELSE [s EXCEPT !.price_trough = price]
    ELSE s

update_price_peak(s, price) ==
    IF s.trades # << >>
    THEN IF s.direction = "Long"
         THEN IF price > s.price_peak THEN [s EXCEPT !.price_peak = price] ELSE s
         ELSE IF price < s.price_trough THEN [s EXCEPT !.price_trough = price] ELSE s
    ELSE s

\* a retracement measured in percent of the average cost, not of the extreme
should_trailing_tp_of_average(s, current_price, pct) ==
    LET C == total_invested(s)
        Q == total_quantity(s)
    IN  IF s.trades = << >> \/ pct <= 0 THEN FALSE
        ELSE IF Q = 0 \/ C = 0 THEN FALSE
        ELSE IF s.direction = "Long"
             THEN IF s.price_peak * Q <= C THEN FALSE
                  ELSE (s.price_peak - current_price) * 100 * Q >= pct * C
                       /\ pnl_pct_gt_margin(s, current_price)
             ELSE IF s.price_trough * Q >= C \/ s.price_trough = PriceTroughUnset
                  THEN FALSE
                  ELSE (current_price - s.price_trough) * 100 * Q >= pct * C
                       /\ pnl_pct_gt_margin(s, current_price)

\* a trailing close that does not ask for a net profit
should_trailing_tp_at_a_loss(s, current_price, pct) ==
    LET C == total_invested(s)
        Q == total_quantity(s)
    IN  IF s.trades = << >> \/ pct <= 0 THEN FALSE
        ELSE IF Q = 0 \/ C = 0 THEN FALSE
        ELSE IF s.direction = "Long"
             THEN IF s.price_peak * Q <= C THEN FALSE
                  ELSE (s.price_peak - current_price) * 100 >= pct * s.price_peak
             ELSE IF s.price_trough * Q >= C \/ s.price_trough = PriceTroughUnset
                  THEN FALSE
                  ELSE (current_price - s.price_trough) * 100 >= pct * s.price_trough

\* DcaStrategy::should_trailing_tp (dca.rs 222-250) with config.trailing_tp_pct
\* given as pct
should_trailing_tp_pct(s, current_price, pct) ==
    LET C == total_invested(s)
        Q == total_quantity(s)
    IN  IF s.trades = << >> \/ pct <= 0 THEN FALSE
        ELSE IF Q = 0 \/ C = 0 THEN FALSE                 \* avg == 0.0
        ELSE IF s.direction = "Long"
             THEN IF s.price_peak * Q <= C THEN FALSE     \* price_peak <= avg
                  ELSE (s.price_peak - current_price) * 100 >= pct * s.price_peak
                       /\ pnl_pct_gt_margin(s, current_price)
             ELSE IF s.price_trough * Q >= C \/ s.price_trough = PriceTroughUnset
                  THEN FALSE
                  ELSE (current_price - s.price_trough) * 100 >= pct * s.price_trough
                       /\ pnl_pct_gt_margin(s, current_price)

should_trailing_tp(s, current_price) ==
    should_trailing_tp_pct(s, current_price, trailing_tp_pct)

\* DcaStrategy::should_take_profit (dca.rs 276-281) with config.take_profit_pct
\* given as pct
should_take_profit_pct(s, current_price, pct) ==
    IF s.trades = << >> \/ pct <= 0 THEN FALSE
    ELSE pnl_pct_ge(s, current_price, pct)

should_take_profit(s, current_price) ==
    should_take_profit_pct(s, current_price, take_profit_pct)

\* a stop that measures the distance from the average cost on either side
should_stop_loss_either_side(s, current_price, pct) ==
    LET C == total_invested(s)
        Q == total_quantity(s)
    IN  IF s.trades = << >> \/ pct <= 0 THEN FALSE
        ELSE IF Q = 0 \/ C = 0 THEN FALSE
        ELSE \/ (C - current_price * Q) * 100 >= pct * C
             \/ (current_price * Q - C) * 100 >= pct * C

\* DcaStrategy::should_stop_loss (dca.rs 286-299) with config.stop_loss_pct
\* given as pct
should_stop_loss_pct(s, current_price, pct) ==
    LET C == total_invested(s)
        Q == total_quantity(s)
    IN  IF s.trades = << >> \/ pct <= 0 THEN FALSE
        ELSE IF Q = 0 \/ C = 0 THEN FALSE                 \* avg == 0.0
        ELSE IF s.direction = "Long"
             THEN (C - current_price * Q) * 100 >= pct * C
             ELSE (current_price * Q - C) * 100 >= pct * C

should_stop_loss(s, current_price) ==
    should_stop_loss_pct(s, current_price, stop_loss_pct)

----------------------------------------------------------------------------
(* DcaStrategy: state mutations (dca.rs 305-340) *)

\* a start that resets the interval timer of a running strategy too
start_restamps(s, t) == [s EXCEPT !.last_buy_time = Some(t), !.state = "Running"]

start(s, t) ==
    [s EXCEPT !.last_buy_time = IF s.state # "Running" THEN Some(t) ELSE @,
              !.state = "Running"]

stop(s) == IF s.state = "Running" THEN [s EXCEPT !.state = "Idle"] ELSE s

\* a record_buy that reaches MaxOrdersReached one entry late
record_buy_late(s, price, quantity, cost, t) ==
    LET trades1 == Append(s.trades, [buy_price |-> price, quantity |-> quantity,
                                     cost |-> cost])
    IN  [s EXCEPT !.trades = trades1,
                  !.last_buy_time = Some(t),
                  !.last_buy_price = Some(price),
                  !.daily_spent = @ + cost,
                  !.state = IF Len(trades1) > max_orders
                            THEN "MaxOrdersReached" ELSE @]

record_buy(s, price, quantity, cost, t) ==
    \* DcaTrade: order_id and timestamp are stored but never read by the engine
    LET trades1 == Append(s.trades, [buy_price |-> price, quantity |-> quantity,
                                     cost |-> cost])
    IN  [s EXCEPT !.trades = trades1,
                  !.last_buy_time = Some(t),
                  !.last_buy_price = Some(price),
                  !.daily_spent = @ + cost,
                  !.state = IF Len(trades1) >= max_orders
                            THEN "MaxOrdersReached" ELSE @]

clear_trades(s) ==
    [s EXCEPT !.trades = << >>,
              !.last_buy_time = None,
              !.last_buy_price = None,
              !.price_peak = 0,
              !.price_trough = PriceTroughUnset]

\* DcaStrategy::start_after_tp is called by evaluate_slot (main.rs 808, 883) but
\* its body is not among the sources; the specification says the machine
\* "immediately re-enters Running", as start() does.
start_after_tp(s, t) == start(s, t)

\* a snapshot that leaves the last entry out
to_snapshot_without_entry(s) ==
    [symbol |-> s.symbol, direction |-> s.direction, trades |-> s.trades,
     last_buy_time |-> None, last_buy_price |-> None,
     daily_spent |-> s.daily_spent, last_reset_day |-> s.last_reset_day,
     price_peak |-> s.price_peak, price_trough |-> s.price_trough,
     has_bnb_balance |-> s.has_bnb_balance, state |-> s.state]

\* DcaStrategy::to_snapshot (dca.rs 354-368)
to_snapshot(s) ==
    [symbol |-> s.symbol, direction |-> s.direction, trades |-> s.trades,
     last_buy_time |-> s.last_buy_time, last_buy_price |-> s.last_buy_price,
     daily_spent |-> s.daily_spent, last_reset_day |-> s.last_reset_day,
     price_peak |-> s.price_peak, price_trough |-> s.price_trough,
     has_bnb_balance |-> s.has_bnb_balance, state |-> s.state]

\* DcaStrategy::new wrapped in a StrategySlot, its cached balances at 0.0
NewSlot(id, symbol, direction, auto_restart, auto_flip) ==
    [id |-> id, symbol |-> symbol, direction |-> direction,
     quote_amount |-> quote_amount, auto_restart |-> auto_restart,
     auto_flip |-> auto_flip, has_bnb_balance |-> FALSE,
     state |-> "Idle", trades |-> << >>,
     last_buy_time |-> None, last_buy_price |-> None,
     daily_spent |-> 0, last_reset_day |-> 0,
     price_peak |-> 0, price_trough |-> PriceTroughUnset,
     base_balance |-> 0, quote_balance |-> 0]

----------------------------------------------------------------------------
(* AppState helpers (app.rs 193-210) *)

SlotIds(ss) == [i \in 1..Len(ss) |-> ss[i].id]

HasSlot(ss, id) == \E i \in 1..Len(ss) : ss[i].id = id

\* position of the first slot with this id (slot_by_id / slot_by_id_mut)
SlotPos(ss, id) == CHOOSE i \in 1..Len(ss) :
                      ss[i].id = id /\ \A j \in 1..(i - 1) : ss[j].id # id

slot_by_id(ss, id) == ss[SlotPos(ss, id)]

\* selected(): slots.get(selected_slot), selected_slot being 0-based
HasSelected == selected_slot + 1 <= Len(slots)

selected == slots[selected_slot + 1]

\* save_all_snapshots (main.rs 1046-1054): a full replacement of the file
save_all_snapshots(ss) == [i \in 1..Len(ss) |-> to_snapshot(ss[i])]

SetSlot(ss, id, s) == [ss EXCEPT ![SlotPos(ss, id)] = s]

SetHalt(id, why) ==
    IF halt.on
    THEN [halt EXCEPT !.why = {h \in @ : h[1] # id} \cup {<<id, why>>}]
    ELSE halt

ClearHalt(id) == [halt EXCEPT !.why = {h \in @ : h[1] # id}]

----------------------------------------------------------------------------
(* The exchange (api/client.rs): a market order fills at the price the engine *)
(* read, {executed_qty, cummulative_quote_qty}; or the call returns Err.      *)

Fill(o) ==
    IF o.call = "market_buy_quote"
    THEN [executed_qty |-> o.arg \div o.price, cummulative_quote_qty |-> o.arg]
    ELSE [executed_qty |-> o.arg, cummulative_quote_qty |-> o.arg * o.price]

----------------------------------------------------------------------------
(* Init: main() with no snapshot file (main.rs 109-151): one slot from the   *)
(* configuration, Idle, UI in Normal mode.                                   *)

\* MarketData::default() without the price (app.rs 16-22)
Row24hDefault == [change_24h_pct |-> 0, high_24h |-> 0, low_24h |-> 0]

\* AppState as main() builds it besides the slots (main.rs 134-151): no row
\* in the market data table, no alert level, an empty log
InitTables ==
    /\ prices_24h = [sym \in DOMAIN prices |-> Row24hDefault]
    /\ alert_levels = [sym \in DOMAIN prices |-> None]
    /\ log = << >>
    /\ mutex = [owner |-> "none", ops |-> [task \in {"engine", "alerts"} |-> << >>]]

\* no history of the overlay is kept
NoConfirmHistory == confirm_for = [on |-> FALSE, id |-> None]

InitEngine ==
    /\ \E d \in {"Long", "Short"}, ar \in BOOLEAN, af \in BOOLEAN :
           /\ af => ar      \* auto_flip is read only when auto_restart is set
           /\ slots = <<NewSlot(0, ConfigSymbol, d, ar, af)>>
           /\ config = [direction |-> d, auto_restart |-> ar, auto_flip |-> af]
    /\ selected_slot = 0
    /\ prices = [sym \in Symbols |-> 0]
    /\ ui_mode = <<"Normal">>
    /\ next_slot_id = 1
    /\ cmdq = << >>
    /\ now = 0
    /\ pc = "select"
    /\ tickIds = << >>
    /\ inflight = << >>
    /\ snapshot = << >>
    /\ InitTables
    /\ NoConfirmHistory

Init ==
    /\ InitEngine
    /\ halt = [on |-> FALSE, why |-> {}]

\* the same program, with the history of halts recorded
InitHistory ==
    /\ InitEngine
    /\ halt = [on |-> TRUE, why |-> {}]

----------------------------------------------------------------------------
(* The clock *)

AdvanceTime ==
    /\ now < MaxTime
    /\ now' = now + 1
    /\ UNCHANGED <<slots, selected_slot, prices, ui_mode, next_slot_id, cmdq, pc,
                   tickIds, inflight, snapshot, halt, config, prices_24h,
                   alert_levels, log, mutex, confirm_for>>

----------------------------------------------------------------------------
(* Tui::handle_key (tui.rs 84-226): reads ui_mode and sends one command.     *)
(* Only the keys whose commands are modelled are pressed.                    *)

Keys == {"x", "v", "s", "Enter", "Esc"}

KeyCmd(mode, key) ==
    IF mode[1] = "NewStrategy"
    THEN IF key = "Enter" THEN Some(<<"NewStratConfirm">>)
         ELSE IF key = "Esc" THEN Some(<<"NewStratCancel">>)
         ELSE None
    ELSE IF mode[1] = "ConfirmDelete"
    THEN IF key = "Enter" THEN Some(<<"ConfirmDeleteNow">>)
         ELSE Some(<<"CloseConfig">>)
    ELSE IF mode[1] = "RestoreSession"
    THEN IF key \in {"c", "Enter"} THEN Some(<<"RestoreSessionContinue">>)
         ELSE IF key \in {"n", "Esc"} THEN Some(<<"RestoreSessionDiscard">>)
         ELSE None
    ELSE IF mode[1] = "PostSale"
    THEN IF key = "s" THEN Some(<<"PostSaleRestart", mode[2]>>)
         ELSE Some(<<"PostSaleDismiss", mode[2]>>)
    ELSE IF mode[1] = "ConfirmClose"
    THEN IF key = "Enter" THEN Some(<<"ConfirmCloseNow">>)
         ELSE Some(<<"CloseConfig">>)
    ELSE IF mode[1] = "Normal"
    THEN IF key = "x" THEN Some(<<"ToggleStartStopSelected">>)
         ELSE IF key = "v" THEN Some(<<"OpenConfirmClose">>)
         ELSE None
    ELSE None

KeyPress ==
    /\ Len(cmdq) < MaxQueue
    /\ \E key \in Keys :
          /\ KeyCmd(ui_mode, key) # None
          /\ cmdq' = Append(cmdq, KeyCmd(ui_mode, key)[1])
    /\ UNCHANGED <<slots, selected_slot, prices, ui_mode, next_slot_id, now, pc,
                   tickIds, inflight, snapshot, halt, config, prices_24h,
                   alert_levels, log, mutex, confirm_for>>

----------------------------------------------------------------------------
(* run_strategy_engine (main.rs 229-271): one select! branch at a time; the  *)
(* branch body runs to completion before the loop selects again.             *)

\* a loop that took the next event while an order is still awaited
SelectNoWait == TRUE

SelectReady == pc = "select"

\* str::parse::<f64>().unwrap_or(default) of a field of a MiniTickerEvent: the
\* field is Some(x) when its text reads as the number x, None when it does not
parse_or(field, default) == IF field = None THEN default ELSE field[1]

\* MiniTickerEvent::close_f64, open_f64 (ticker.rs 53-59)
close_f64(event) == parse_or(event.close_price, 0)

open_f64(event) == parse_or(event.open_price, 0)

\* MiniTickerEvent::change_pct (ticker.rs 61-67); the prices of the model make
\* the quotient whole
change_pct(event) ==
    LET open == open_f64(event)
    IN  IF open = 0 THEN 0
        ELSE ((close_f64(event) - open) * 100) \div open

\* price_rx.recv() branch (main.rs 232-240) for one event
RecvTickerEvent(event) ==
    /\ SelectReady
    /\ prices' = [prices EXCEPT ![event.symbol] = close_f64(event)]
    /\ prices_24h' = [prices_24h EXCEPT ![event.symbol] =
                         [change_24h_pct |-> change_pct(event),
                          high_24h |-> parse_or(event.high_price, @.high_24h),
                          low_24h |-> parse_or(event.low_price, @.low_24h)]]
    /\ UNCHANGED <<slots, selected_slot, ui_mode, next_slot_id, cmdq, now, pc,
                   tickIds, inflight, snapshot, halt, config, alert_levels, log, mutex, confirm_for>>

\* an event whose four prices are the same number
FlatEvent(sym, p) ==
    [symbol |-> sym, close_price |-> Some(p), open_price |-> Some(p),
     high_price |-> Some(p), low_price |-> Some(p)]

\* price_rx.recv() branch (main.rs 232-240); the engine reads the price only,
\* and in its runs the events are flat
RecvPrice ==
    \E sym \in Symbols, p \in PriceValues : RecvTickerEvent(FlatEvent(sym, p))

\* the values evaluate_slot reads under the lock (main.rs 717-734)
Decide(s, price, t) ==
    [price |-> price,
     direction |-> s.direction,
     should_entry |-> should_buy(s, price, t, max_daily_spend),
     should_tp |-> should_take_profit(s, price),
     should_sl |-> should_stop_loss(s, price),
     should_trailing_tp |-> should_trailing_tp(s, price),
     qty |-> total_quantity(s),
     amount |-> s.quote_amount,
     pnl |-> pnl(s, price),
     pnl_pct |-> pnl_pct(s, price),
     auto_restart |-> s.auto_restart,
     auto_flip |-> s.auto_flip,
     symbol |-> s.symbol]

\* a cascade that tries the entry first
OrderKindEntryFirst(d) ==
    IF d.should_entry THEN "ENTRY"
    ELSE IF d.should_sl /\ d.qty > 0 THEN "SL"
    ELSE IF d.should_tp /\ d.qty > 0 THEN "TP"
    ELSE IF d.should_trailing_tp /\ d.qty > 0 THEN "TTP"
    ELSE "NONE"

\* the cascade of evaluate_slot (main.rs 740, 782, 845, 922)
OrderKind(d) ==
    IF d.should_sl /\ d.qty > 0 THEN "SL"
    ELSE IF d.should_tp /\ d.qty > 0 THEN "TP"
    ELSE IF d.should_trailing_tp /\ d.qty > 0 THEN "TTP"
    ELSE IF d.should_entry THEN "ENTRY"
    ELSE "NONE"

\* the request sent to the exchange, with the locals the continuation uses
MakeOrder(id, origin, kind, d) ==
    [slot_id |-> id, origin |-> origin, kind |-> kind, d |-> d,
     symbol |-> d.symbol, price |-> d.price,
     call |-> IF kind = "ENTRY"
              THEN IF d.direction = "Long" THEN "market_buy_quote"
                                           ELSE "market_sell_qty"
              ELSE IF d.direction = "Long" THEN "market_sell_qty"
                                           ELSE "market_buy_qty",
     arg |-> IF kind = "ENTRY"
             THEN IF d.direction = "Long" THEN d.amount
                                          ELSE d.amount \div d.price
             ELSE d.qty]

\* evaluate_slot up to the order it submits, if any (main.rs 676-936, 979-991):
\* the slot after the locked section, and the order (None if it returns early)
evaluate_slot(s, price, t) ==
    LET s1 == tick(s, t)
        s2 == update_price_peak(s1, price)
        d == Decide(s2, price, t)
        kind == OrderKind(d)
    IN  IF price = 0 THEN [slot |-> s1, order |-> None]
        ELSE IF kind = "NONE" THEN [slot |-> s2, order |-> None]
        ELSE [slot |-> s2, order |-> Some(MakeOrder(s.id, "tick", kind, d))]

\* the for loop of the strategy tick (main.rs 261-263), run until an
\* evaluate_slot awaits an order or the ids are exhausted: the slots then, the
\* order awaited (None at the end of the loop) and the ids still to evaluate
\* once that order has returned
RECURSIVE RunTick(_, _, _, _)
RunTick(ss, ids, pr, t) ==
    IF ids = << >> THEN [slots |-> ss, order |-> None, rest |-> << >>]
    ELSE IF ~HasSlot(ss, Head(ids)) THEN RunTick(ss, Tail(ids), pr, t)
    ELSE LET s == slot_by_id(ss, Head(ids))
             r == evaluate_slot(s, pr[s.symbol], t)
             ss1 == SetSlot(ss, s.id, r.slot)
         IN  IF r.order = None THEN RunTick(ss1, Tail(ids), pr, t)
             ELSE [slots |-> ss1, order |-> r.order, rest |-> Tail(ids)]

\* the engine goes on with the loop over ids; done is the in-flight list once
\* the order just handled (if any) is taken off
EngineGoesOn(ss, ids, done) ==
    LET r == RunTick(ss, ids, prices, now)
    IN  /\ slots' = r.slots
        /\ tickIds' = r.rest
        /\ pc' = IF r.order = None THEN "select" ELSE "order"
        /\ inflight' = IF r.order = None THEN done ELSE Append(done, r.order[1])

\* strategy_tick.tick() branch (main.rs 259-264)
StrategyTick ==
    /\ SelectReady
    /\ EngineGoesOn(slots, SlotIds(slots), inflight)
    /\ UNCHANGED <<selected_slot, prices, ui_mode, next_slot_id, cmdq, now,
                   snapshot, halt, config, prices_24h,
                   alert_levels, log, mutex, confirm_for>>

\* an engine that gives the tick up once an order was handled
AfterOrderAbandonsTick(o, ss) ==
    /\ slots' = ss
    /\ pc' = "select"
    /\ inflight' = Tail(inflight)
    /\ tickIds' = << >>

\* where the engine goes on after the order's result was handled: the rest of
\* the tick, or back to the select
AfterOrder(o, ss) ==
    IF o.origin = "tick"
    THEN EngineGoesOn(ss, tickIds, Tail(inflight))
    ELSE /\ slots' = ss
         /\ pc' = "select"
         /\ inflight' = Tail(inflight)
         /\ UNCHANGED tickIds

SaleResult(kind, received, o) ==
    [kind |-> kind, received |-> received, pnl |-> o.d.pnl, pnl_pct |-> o.d.pnl_pct]

\* Ok(order) after a stop loss (main.rs 753-771)
StopLossFilled(s) == clear_trades(stop([s EXCEPT !.state = "StopLossReached"]))

\* a restart that flips the direction whatever auto_flip says
TakeProfitFilledAlwaysFlips(s, auto_restart, auto_flip, t) ==
    LET s1 == clear_trades([s EXCEPT !.state = "TakeProfitReached"])
    IN  IF auto_restart
        THEN start_after_tp([s1 EXCEPT !.direction = flip(s1.direction)], t)
        ELSE stop(s1)

\* a flip applied with the trades still held
TakeProfitFilledKeepsTrades(s, auto_restart, auto_flip, t) ==
    LET s1 == [s EXCEPT !.state = "TakeProfitReached"]
    IN  IF auto_restart
        THEN start_after_tp(IF auto_flip
                            THEN [s1 EXCEPT !.direction = flip(s1.direction)]
                            ELSE s1, t)
        ELSE stop(s1)
\* Ok(order) after a take profit or trailing take profit (main.rs 795-812, 870-887)
TakeProfitFilled(s, auto_restart, auto_flip, t) ==
    LET s1 == clear_trades([s EXCEPT !.state = "TakeProfitReached"])
    IN  IF auto_restart
        THEN start_after_tp(IF auto_flip
                            THEN [s1 EXCEPT !.direction = flip(s1.direction)]
                            ELSE s1, t)
        ELSE stop(s1)

\* Ok(order) after a manual close (main.rs 601-608)
ManualCloseFilled(s) == clear_trades(stop(s))

\* Ok(order) after an entry (main.rs 937-951, 992-1006)
EntryFilled(s, o, t) ==
    LET exec_qty == Fill(o).executed_qty
        cost == Fill(o).cummulative_quote_qty
        actual_price == IF exec_qty > 0 THEN cost \div exec_qty ELSE o.price
    IN  record_buy(s, actual_price, exec_qty, cost, t)

\* Err(e) after an entry (main.rs 955-974, 1010-1029)
EntryFailed(s) == [stop(s) EXCEPT !.state = "Idle"]

\* an error arm that drops the position it failed to close
CloseFailedClears(s) == clear_trades(s)

\* Err(e) after a stop loss, take profit, trailing take profit or manual
\* close: logged only (main.rs 772-774, 835-837, 910-912, 625-630)
CloseFailed(s) == s

\* the order returned Ok(order)
OrderOk ==
    /\ pc = "order"
    /\ inflight # << >>
    /\ LET o == Head(inflight)
           id == o.slot_id
           received == Fill(o).cummulative_quote_qty
           s == slot_by_id(slots, id)
           slots1 ==
               IF ~HasSlot(slots, id) THEN slots
               ELSE IF o.kind = "SL" THEN SetSlot(slots, id, StopLossFilled(s))
               ELSE IF o.kind \in {"TP", "TTP"}
                    THEN SetSlot(slots, id,
                            TakeProfitFilled(s, o.d.auto_restart, o.d.auto_flip, now))
               ELSE IF o.kind = "MANUAL" THEN SetSlot(slots, id, ManualCloseFilled(s))
               ELSE SetSlot(slots, id, EntryFilled(s, o, now))
       IN  /\ ui_mode' =
                 IF o.kind = "SL"
                 THEN <<"PostSale", id, SaleResult("STOP LOSS", received, o)>>
                 ELSE IF o.kind = "TP" /\ ~o.d.auto_restart
                 THEN <<"PostSale", id, SaleResult("TAKE PROFIT", received, o)>>
                 ELSE IF o.kind = "TTP" /\ ~o.d.auto_restart
                 THEN <<"PostSale", id, SaleResult("TRAILING TP", received, o)>>
                 ELSE IF o.kind = "MANUAL"
                 THEN <<"PostSale", id, SaleResult("MANUAL CLOSE", received, o)>>
                 ELSE ui_mode
           /\ snapshot' = save_all_snapshots(slots1)
           /\ halt' = IF o.kind = "SL" THEN SetHalt(id, "stop_loss") ELSE halt
           /\ AfterOrder(o, slots1)
    /\ UNCHANGED <<selected_slot, prices, next_slot_id, cmdq, now, config, prices_24h,
                   alert_levels, log, mutex, confirm_for>>

\* the order returned Err(e): logged; a failed entry also halts the slot
OrderErr ==
    /\ pc = "order"
    /\ inflight # << >>
    /\ LET o == Head(inflight)
           id == o.slot_id
           slots1 == IF ~HasSlot(slots, id) THEN slots
                     ELSE IF o.kind = "ENTRY"
                     THEN SetSlot(slots, id, EntryFailed(slot_by_id(slots, id)))
                     ELSE SetSlot(slots, id, CloseFailed(slot_by_id(slots, id)))
       IN  /\ halt' = IF o.kind = "ENTRY" THEN SetHalt(id, "entry_failed")
                      ELSE IF o.kind \in {"SL", "TP", "TTP"}
                      THEN SetHalt(id, "close_failed")
                      ELSE halt
           /\ AfterOrder(o, slots1)
    /\ UNCHANGED <<selected_slot, prices, ui_mode, next_slot_id, cmdq, now, snapshot,
                   config, prices_24h,
                   alert_levels, log, mutex, confirm_for>>

----------------------------------------------------------------------------
(* handle_command (main.rs 275-673): the cmd_rx.recv() branch of the select *)

Recv(tag) ==
    /\ SelectReady
    /\ cmdq # << >>
    /\ Head(cmdq)[1] = tag
    /\ cmdq' = Tail(cmdq)

\* main.rs 334-351
ToggleStartStopSelected ==
    /\ Recv("ToggleStartStopSelected")
    /\ IF HasSelected
       THEN LET s == selected
                slots1 == [slots EXCEPT ![selected_slot + 1] =
                              IF s.state = "Running" THEN stop(s) ELSE start(s, now)]
            IN  /\ slots' = slots1
                /\ snapshot' = save_all_snapshots(slots1)
                /\ halt' = IF s.state = "Running" THEN halt ELSE ClearHalt(s.id)
       ELSE UNCHANGED <<slots, snapshot, halt>>
    /\ UNCHANGED <<selected_slot, prices, ui_mode, next_slot_id, now, pc, tickIds,
                   inflight, config, prices_24h,
                   alert_levels, log, mutex, confirm_for>>

\* main.rs 504-513
PostSaleRestart ==
    /\ Recv("PostSaleRestart")
    /\ LET id == Head(cmdq)[2]
           slots1 == IF HasSlot(slots, id)
                     THEN SetSlot(slots, id, start(slot_by_id(slots, id), now))
                     ELSE slots
       IN  /\ slots' = slots1
           /\ ui_mode' = <<"Normal">>
           /\ snapshot' = save_all_snapshots(slots1)
           /\ halt' = ClearHalt(id)
    /\ UNCHANGED <<selected_slot, prices, next_slot_id, now, pc, tickIds, inflight,
                   config, prices_24h,
                   alert_levels, log, mutex, confirm_for>>

\* main.rs 514-521
PostSaleDismiss ==
    /\ Recv("PostSaleDismiss")
    /\ ui_mode' = IF ui_mode[1] = "PostSale" /\ ui_mode[2] = Head(cmdq)[2]
                  THEN <<"Normal">> ELSE ui_mode
    /\ UNCHANGED <<slots, selected_slot, prices, next_slot_id, now, pc, tickIds,
                   inflight, snapshot, halt, config, prices_24h,
                   alert_levels, log, mutex, confirm_for>>

\* main.rs 534-536
CloseConfig ==
    /\ Recv("CloseConfig")
    /\ ui_mode' = <<"Normal">>
    /\ UNCHANGED <<slots, selected_slot, prices, next_slot_id, now, pc, tickIds,
                   inflight, snapshot, halt, config, prices_24h,
                   alert_levels, log, mutex, confirm_for>>

\* main.rs 547-558
OpenConfirmClose ==
    /\ Recv("OpenConfirmClose")
    /\ ui_mode' = IF HasSelected /\ total_quantity(selected) > 0
                  THEN <<"ConfirmClose">> ELSE ui_mode
    /\ confirm_for' = IF confirm_for.on /\ HasSelected /\ total_quantity(selected) > 0
                      THEN [confirm_for EXCEPT !.id = Some(selected.id)]
                      ELSE confirm_for
    /\ UNCHANGED <<slots, selected_slot, prices, next_slot_id, now, pc, tickIds,
                   inflight, snapshot, halt, config, prices_24h,
                   alert_levels, log, mutex>>

\* main.rs 559-598: up to the order it submits, if any
ConfirmCloseNow ==
    /\ Recv("ConfirmCloseNow")
    /\ ui_mode' = <<"Normal">>
    /\ IF HasSelected /\ total_quantity(selected) > 0
       THEN LET s == selected
                d == Decide(s, prices[s.symbol], now)
            IN  /\ inflight' = Append(inflight, MakeOrder(s.id, "cmd", "MANUAL", d))
                /\ pc' = "order"
       ELSE UNCHANGED <<inflight, pc>>
    /\ UNCHANGED <<slots, selected_slot, prices, next_slot_id, now, tickIds,
                   snapshot, halt, config, prices_24h,
                   alert_levels, log, mutex, confirm_for>>

----------------------------------------------------------------------------
(* Startup with a snapshot file (main.rs 74-151) and the restore prompt      *)

\* the value of a field of a JSON object, or the serde default when missing
Field(o, k, default) == IF k \in DOMAIN o THEN o[k] ELSE default

SnapRequired == {"symbol", "trades", "daily_spent", "last_reset_day"}

\* serde's reading of one StrategySnapshot (dca.rs 389-419): a missing Option
\* is None, the fields marked #[serde(default)] take their defaults
parse_snapshot(o) ==
    [symbol |-> o.symbol,
     direction |-> Field(o, "direction", "Long"),
     trades |-> o.trades,
     last_buy_time |-> Field(o, "last_buy_time", None),
     last_buy_price |-> Field(o, "last_buy_price", None),
     daily_spent |-> o.daily_spent,
     last_reset_day |-> o.last_reset_day,
     price_peak |-> Field(o, "price_peak", 0),
     price_trough |-> Field(o, "price_trough", PriceTroughUnset),
     has_bnb_balance |-> Field(o, "has_bnb_balance", FALSE),
     state |-> Field(o, "state", "Idle")]

\* load_snapshots (main.rs 1074-1088) of a file that holds a JSON array: the
\* records, or nothing when one of them lacks a required field. (A file that
\* holds one object or no JSON at all is not among the files modelled.)
load_snapshots(file) ==
    IF \A i \in 1..Len(file) : SnapRequired \subseteq DOMAIN file[i]
    THEN [i \in 1..Len(file) |-> parse_snapshot(file[i])]
    ELSE << >>

\* a restore that leaves the lifecycle state of the fresh strategy
restore_keeps_idle(s, snap) ==
    [s EXCEPT !.direction = snap.direction,
              !.has_bnb_balance = snap.has_bnb_balance,
              !.trades = snap.trades,
              !.last_buy_time = snap.last_buy_time,
              !.last_buy_price = snap.last_buy_price,
              !.daily_spent = snap.daily_spent,
              !.last_reset_day = snap.last_reset_day,
              !.price_peak = snap.price_peak,
              !.price_trough = snap.price_trough]

\* DcaStrategy::restore_from_snapshot (dca.rs 371-382)
restore_from_snapshot(s, snap) ==
    [s EXCEPT !.direction = snap.direction,
              !.has_bnb_balance = snap.has_bnb_balance,
              !.trades = snap.trades,
              !.last_buy_time = snap.last_buy_time,
              !.last_buy_price = snap.last_buy_price,
              !.daily_spent = snap.daily_spent,
              !.last_reset_day = snap.last_reset_day,
              !.price_peak = snap.price_peak,
              !.price_trough = snap.price_trough,
              !.state = snap.state]

Min(a, b) == IF a <= b THEN a ELSE b

\* the slots main() builds from the snapshots, at most MAX_SLOTS of them
\* (main.rs 82-108)
RestoredSlots(snaps, ar, af) ==
    [i \in 1..Min(Len(snaps), MAX_SLOTS) |->
        restore_from_snapshot(
            NewSlot(i - 1, snaps[i].symbol, snaps[i].direction, ar, af), snaps[i])]

\* restore_info: (symbol, direction, trade count, active) of each restored slot
RestoreInfo(ss) ==
    [i \in 1..Len(ss) |->
        <<ss[i].symbol, ss[i].direction, Len(ss[i].trades), ss[i].state = "Running">>]

\* the [dca] table of config.toml: the fields that differ between runs
Configs ==
    {c \in [direction : {"Long", "Short"}, auto_restart : BOOLEAN, auto_flip : BOOLEAN] :
        c.auto_flip => c.auto_restart}

\* main() up to the spawn of the engine (main.rs 74-151); config holds what
\* Config::load returned
Main ==
    /\ pc = "boot"
    /\ LET snaps == load_snapshots(snapshot)
           slots1 == IF snaps # << >>
                     THEN RestoredSlots(snaps, config.auto_restart, config.auto_flip)
                     ELSE <<NewSlot(0, ConfigSymbol, config.direction,
                                    config.auto_restart, config.auto_flip)>>
           info == IF snaps # << >> THEN RestoreInfo(slots1) ELSE << >>
       IN  /\ slots' = slots1
           /\ next_slot_id' = Len(slots1)
           /\ ui_mode' = IF \E i \in 1..Len(info) : info[i][3] > 0 \/ info[i][4]
                         THEN <<"RestoreSession", info>>
                         ELSE <<"Normal">>
    /\ selected_slot' = 0
    /\ pc' = "select"
    /\ UNCHANGED <<prices, cmdq, now, tickIds, inflight, snapshot, halt, config, prices_24h,
                   alert_levels, log, mutex, confirm_for>>

\* main.rs 289-293
RestoreSessionContinue ==
    /\ Recv("RestoreSessionContinue")
    /\ ui_mode' = <<"Normal">>
    /\ UNCHANGED <<slots, selected_slot, prices, next_slot_id, now, pc, tickIds,
                   inflight, snapshot, halt, config, prices_24h,
                   alert_levels, log, mutex, confirm_for>>

\* an allocation that hands out the lowest id no live slot holds
alloc_lowest_free == CHOOSE k \in 0..Len(slots) : ~HasSlot(slots, k)

\* AppState::alloc_slot_id (app.rs 223-227): the id handed out
alloc_slot_id == next_slot_id

\* main.rs 294-317
RestoreSessionDiscard ==
    /\ Recv("RestoreSessionDiscard")
    /\ LET slots1 == <<NewSlot(alloc_slot_id, ConfigSymbol, config.direction,
                               config.auto_restart, config.auto_flip)>>
       IN  /\ slots' = slots1
           /\ snapshot' = save_all_snapshots(slots1)
    /\ next_slot_id' = next_slot_id + 1
    /\ selected_slot' = 0
    /\ ui_mode' = <<"Normal">>
    /\ UNCHANGED <<prices, now, pc, tickIds, inflight, halt, config, prices_24h,
                   alert_levels, log, mutex, confirm_for>>

----------------------------------------------------------------------------
(* The registry of slots: selection, deletion, the new-strategy modal        *)

\* AppState.symbols: the pairs the modal offers
AvailableSymbols == <<"BTCUSDT", "ETHUSDT">>

\* main.rs 320-325
SlotSelectUp ==
    /\ Recv("SlotSelectUp")
    /\ selected_slot' = IF selected_slot > 0 THEN selected_slot - 1 ELSE selected_slot
    /\ UNCHANGED <<slots, prices, ui_mode, next_slot_id, now, pc, tickIds,
                   inflight, snapshot, halt, config, prices_24h,
                   alert_levels, log, mutex, confirm_for>>

\* main.rs 326-332
SlotSelectDown ==
    /\ Recv("SlotSelectDown")
    /\ selected_slot' = IF selected_slot + 1 < Len(slots) THEN selected_slot + 1
                        ELSE selected_slot
    /\ UNCHANGED <<slots, prices, ui_mode, next_slot_id, now, pc, tickIds,
                   inflight, snapshot, halt, config, prices_24h,
                   alert_levels, log, mutex, confirm_for>>

\* main.rs 369-377
OpenConfirmDelete ==
    /\ Recv("OpenConfirmDelete")
    /\ ui_mode' = IF Len(slots) <= 1 THEN ui_mode ELSE <<"ConfirmDelete">>
    /\ UNCHANGED <<slots, selected_slot, prices, next_slot_id, now, pc, tickIds,
                   inflight, snapshot, halt, config, prices_24h,
                   alert_levels, log, mutex, confirm_for>>

\* the sequence without its element at pos
RemoveAt(ss, pos) == [i \in 1..(Len(ss) - 1) |-> IF i < pos THEN ss[i] ELSE ss[i + 1]]

\* AppState::remove_slot (app.rs 213-220): the slots and the selection after
remove_slot(ss, sel, id) ==
    IF HasSlot(ss, id)
    THEN LET ss1 == RemoveAt(ss, SlotPos(ss, id))
         IN  [slots |-> ss1,
              selected_slot |-> IF sel >= Len(ss1) /\ ss1 # << >>
                                THEN Len(ss1) - 1 ELSE sel]
    ELSE [slots |-> ss, selected_slot |-> sel]

\* main.rs 378-395
ConfirmDeleteNow ==
    /\ Recv("ConfirmDeleteNow")
    /\ ui_mode' = <<"Normal">>
    /\ IF HasSelected
       THEN LET r == remove_slot(slots, selected_slot, selected.id)
            IN  /\ slots' = r.slots
                /\ selected_slot' = r.selected_slot
                /\ snapshot' = save_all_snapshots(r.slots)
       ELSE UNCHANGED <<slots, selected_slot, snapshot>>
    /\ UNCHANGED <<prices, next_slot_id, now, pc, tickIds, inflight, halt, config, prices_24h,
                   alert_levels, log, mutex, confirm_for>>

\* main.rs 398-410 (the fields of the modal are not kept: NewStratConfirm
\* takes as input any value the modal's commands can give them)
OpenNewStrategy ==
    /\ Recv("OpenNewStrategy")
    /\ ui_mode' = <<"NewStrategy">>
    /\ UNCHANGED <<slots, selected_slot, prices, next_slot_id, now, pc, tickIds,
                   inflight, snapshot, halt, config, prices_24h,
                   alert_levels, log, mutex, confirm_for>>

\* main.rs 446-448
NewStratCancel ==
    /\ Recv("NewStratCancel")
    /\ ui_mode' = <<"Normal">>
    /\ UNCHANGED <<slots, selected_slot, prices, next_slot_id, now, pc, tickIds,
                   inflight, snapshot, halt, config, prices_24h,
                   alert_levels, log, mutex, confirm_for>>

\* a confirm that does not look at the number of slots
NewStratConfirmNoLimit ==
    /\ Recv("NewStratConfirm")
    /\ \E idx \in 1..Len(AvailableSymbols), direction \in {"Long", "Short"} :
          LET strat == start(NewSlot(alloc_slot_id, AvailableSymbols[idx], direction,
                                     config.auto_restart, config.auto_flip), now)
              slots1 == Append(slots, strat)
          IN  /\ slots' = slots1
              /\ next_slot_id' = next_slot_id + 1
              /\ selected_slot' = Len(slots1) - 1
              /\ ui_mode' = <<"Normal">>
              /\ snapshot' = save_all_snapshots(slots1)
    /\ UNCHANGED <<prices, now, pc, tickIds, inflight, halt, config, prices_24h,
                   alert_levels, log, mutex, confirm_for>>

\* main.rs 449-501; the symbol and the direction chosen in the modal are
\* inputs, the restart flags are those the modal opens with
NewStratConfirm ==
    /\ Recv("NewStratConfirm")
    /\ \E idx \in 1..Len(AvailableSymbols), direction \in {"Long", "Short"} :
          LET can_add == Len(slots) < MAX_SLOTS
              strat == start(NewSlot(alloc_slot_id, AvailableSymbols[idx], direction,
                                     config.auto_restart, config.auto_flip), now)
              slots1 == Append(slots, strat)
          IN  IF ~can_add
              THEN UNCHANGED <<slots, next_slot_id, selected_slot, ui_mode, snapshot>>
              ELSE /\ slots' = slots1
                   /\ next_slot_id' = next_slot_id + 1
                   /\ selected_slot' = Len(slots1) - 1
                   /\ ui_mode' = <<"Normal">>
                   /\ snapshot' = save_all_snapshots(slots1)
    /\ UNCHANGED <<prices, now, pc, tickIds, inflight, halt, config, prices_24h,
                   alert_levels, log, mutex, confirm_for>>

----------------------------------------------------------------------------

Next ==
    \/ AdvanceTime
    \/ KeyPress
    \/ RecvPrice
    \/ StrategyTick
    \/ OrderOk
    \/ OrderErr
    \/ ToggleStartStopSelected
    \/ PostSaleRestart
    \/ PostSaleDismiss
    \/ CloseConfig
    \/ OpenConfirmClose
    \/ ConfirmCloseNow

Spec == Init /\ [][Next]_vars

----------------------------------------------------------------------------
(* A start of the process on the file an earlier run left.  The earlier run  *)
(* is replayed with the program's own operations, at minute 0 of this run's  *)
(* clock, on a strategy of direction d.                                      *)

AsStarted(d) == start(NewSlot(0, ConfigSymbol, d, TRUE, FALSE), 0)

\* ... and one entry filled at 100
AsEntered(d) == record_buy(tick(AsStarted(d), 0), 100, quote_amount \div 100,
                           quote_amount, 0)

\* ... sold at a profit, restarted, and entered again the same day
AsEnteredTwice(d) ==
    LET s == TakeProfitFilled(AsEntered(d), TRUE, FALSE, 0)
    IN  record_buy(s, 100, quote_amount \div 100, quote_amount, 0)

\* ... or stopped by the user with the position open
AsStopped(d) == stop(AsEntered(d))

\* the record an older release wrote: no state, no extremes, no direction
OldRecord ==
    [symbol |-> ConfigSymbol, trades |-> AsEntered("Long").trades,
     last_buy_time |-> Some(0), last_buy_price |-> Some(100),
     daily_spent |-> quote_amount, last_reset_day |-> Day(0)]

SnapshotFiles ==
    {<<to_snapshot(s)>> :
        s \in UNION {{NewSlot(0, ConfigSymbol, d, TRUE, FALSE), AsStarted(d),
                      AsEntered(d), AsEnteredTwice(d), AsStopped(d)} :
                     d \in {"Long", "Short"}}}
    \cup {<<OldRecord>>}

InitRestore ==
    /\ pc = "boot"
    /\ snapshot \in SnapshotFiles
    /\ slots = << >>
    /\ selected_slot = 0
    /\ prices = [sym \in Symbols |-> 0]
    /\ ui_mode = <<"Normal">>
    /\ next_slot_id = 0
    /\ cmdq = << >>
    /\ now = 0
    /\ tickIds = << >>
    /\ inflight = << >>
    /\ halt = [on |-> FALSE, why |-> {}]
    /\ config \in Configs
    /\ InitTables
    /\ NoConfirmHistory

\* the keys that answer the restore prompt
PromptKeys == {"c", "n"}

KeyPressPrompt ==
    /\ Len(cmdq) < MaxQueue
    /\ pc # "boot"
    /\ \E key \in PromptKeys :
          /\ KeyCmd(ui_mode, key) # None
          /\ cmdq' = Append(cmdq, KeyCmd(ui_mode, key)[1])
    /\ UNCHANGED <<slots, selected_slot, prices, ui_mode, next_slot_id, now, pc,
                   tickIds, inflight, snapshot, halt, config, prices_24h,
                   alert_levels, log, mutex, confirm_for>>

NextRestore ==
    \/ Main
    \/ KeyPressPrompt
    \/ RestoreSessionContinue
    \/ RestoreSessionDiscard
    \/ AdvanceTime
    \/ RecvPrice
    \/ StrategyTick
    \/ OrderOk
    \/ OrderErr

SpecRestore == InitRestore /\ [][NextRestore]_vars

----------------------------------------------------------------------------
(* The registry of slots, from a start on a file of up to MAX_SLOTS + 1      *)
(* records.  No price arrives and no time passes in these runs.              *)

MaxSlotId == 5      \* the user stops adding slots once next_slot_id reaches it
MaxRegistryQueue == 2   \* commands waiting in these runs (the channel holds 16)

\* five records: never started, started with no entry yet, written by an
\* older release with a position open, Running with a position, never started
RegistryRecords ==
    <<to_snapshot(NewSlot(0, "BTCUSDT", "Long", TRUE, FALSE)),
      to_snapshot(AsStarted("Short")),
      OldRecord,
      to_snapshot(AsEntered("Long")),
      to_snapshot(NewSlot(0, "ETHUSDT", "Long", TRUE, FALSE))>>

RegistryFiles == {SubSeq(RegistryRecords, 1, n) : n \in 0..(MAX_SLOTS + 1)}

InitRegistry ==
    /\ pc = "boot"
    /\ snapshot \in RegistryFiles
    /\ slots = << >>
    /\ selected_slot = 0
    /\ prices = [sym \in Symbols |-> 0]
    /\ ui_mode = <<"Normal">>
    /\ next_slot_id = 0
    /\ cmdq = << >>
    /\ now = 0
    /\ tickIds = << >>
    /\ inflight = << >>
    /\ halt = [on |-> FALSE, why |-> {}]
    /\ config \in {c \in Configs : c.direction = "Short" /\ c.auto_restart /\ ~c.auto_flip}
    /\ InitTables
    /\ NoConfirmHistory

RegistryKeys == {"s", "d", "Up", "Down", "Enter", "Esc"}

\* Tui::handle_key in Normal mode for the keys of the registry (tui.rs
\* 179-223), KeyCmd in the other modes
KeyCmdRegistry(mode, key, slots_len) ==
    IF mode[1] = "Normal"
    THEN IF key = "s"
         THEN IF slots_len < MAX_SLOTS THEN Some(<<"OpenNewStrategy">>) ELSE None
         ELSE IF key = "d" THEN Some(<<"OpenConfirmDelete">>)
         ELSE IF key = "Up" THEN Some(<<"SlotSelectUp">>)
         ELSE IF key = "Down" THEN Some(<<"SlotSelectDown">>)
         ELSE None
    ELSE KeyCmd(mode, key)

KeyPressRegistry ==
    /\ Len(cmdq) < MaxRegistryQueue
    /\ pc # "boot"
    /\ next_slot_id < MaxSlotId
    /\ \E key \in RegistryKeys :
          /\ KeyCmdRegistry(ui_mode, key, Len(slots)) # None
          /\ cmdq' = Append(cmdq, KeyCmdRegistry(ui_mode, key, Len(slots))[1])
    /\ UNCHANGED <<slots, selected_slot, prices, ui_mode, next_slot_id, now, pc,
                   tickIds, inflight, snapshot, halt, config, prices_24h,
                   alert_levels, log, mutex, confirm_for>>

NextRegistry ==
    \/ Main
    \/ KeyPressRegistry
    \/ RestoreSessionContinue
    \/ RestoreSessionDiscard
    \/ SlotSelectUp
    \/ SlotSelectDown
    \/ OpenConfirmDelete
    \/ ConfirmDeleteNow
    \/ CloseConfig
    \/ OpenNewStrategy
    \/ NewStratCancel
    \/ NewStratConfirm

SpecRegistry == InitRegistry /\ [][NextRegistry]_vars

SpecHistory == InitHistory /\ [][Next]_vars

----------------------------------------------------------------------------
(* The position metrics and the closing decisions of DcaStrategy on their    *)
(* own: one strategy takes fills, sees prices and is cleared.  Prices and    *)
(* costs are in tenths of a quote unit here (1045 is 104.5).                 *)

MaxMetricTrades == 3    \* fills recorded before the position is cleared

MetricPrices == {900, 950, 990, 1000, 1010, 1045, 1078, 1079, 1100}

MetricFills ==
    {[price |-> 1000, quantity |-> 1], [price |-> 950, quantity |-> 1],
     [price |-> 900, quantity |-> 1], [price |-> 950, quantity |-> 2]}

TrailingPcts == {2, 10}

\* config.stop_loss_pct and config.take_profit_pct of the runs that compare
\* the two closing decisions
StopLossPcts == {1, 5, 10}

TakeProfitPcts == {1, 5, 10}

InitMetrics ==
    /\ \E d \in {"Long", "Short"} :
          slots = <<start(NewSlot(0, ConfigSymbol, d, FALSE, FALSE), 0)>>
    /\ selected_slot = 0
    /\ prices = [sym \in Symbols |-> 0]
    /\ ui_mode = <<"Normal">>
    /\ next_slot_id = 1
    /\ cmdq = << >>
    /\ now = 0
    /\ pc = "select"
    /\ tickIds = << >>
    /\ inflight = << >>
    /\ snapshot = << >>
    /\ halt = [on |-> FALSE, why |-> {}]
    /\ config = [direction |-> "Long", auto_restart |-> FALSE, auto_flip |-> FALSE]
    /\ InitTables
    /\ NoConfirmHistory

\* a fill is recorded (record_buy); a run follows one position, so nothing
\* is filled once it has been cleared
MetricsFill ==
    /\ Len(slots[1].trades) < MaxMetricTrades
    /\ slots[1].daily_spent = SumCost(slots[1].trades)
    /\ \E f \in MetricFills :
          slots' = <<record_buy(slots[1], f.price, f.quantity,
                                f.price * f.quantity, now)>>
    /\ UNCHANGED <<selected_slot, prices, ui_mode, next_slot_id, cmdq, now, pc,
                   tickIds, inflight, snapshot, halt, config, prices_24h,
                   alert_levels, log, mutex, confirm_for>>

\* a price is seen (update_price_peak)
MetricsPrice ==
    /\ \E p \in MetricPrices :
          /\ prices' = [prices EXCEPT ![slots[1].symbol] = p]
          /\ slots' = <<update_price_peak(slots[1], p)>>
    /\ UNCHANGED <<selected_slot, ui_mode, next_slot_id, cmdq, now, pc,
                   tickIds, inflight, snapshot, halt, config, prices_24h,
                   alert_levels, log, mutex, confirm_for>>

\* the position is closed (clear_trades)
MetricsClear ==
    /\ slots[1].trades # << >>
    /\ slots' = <<clear_trades(slots[1])>>
    /\ UNCHANGED <<selected_slot, prices, ui_mode, next_slot_id, cmdq, now, pc,
                   tickIds, inflight, snapshot, halt, config, prices_24h,
                   alert_levels, log, mutex, confirm_for>>

NextMetrics == MetricsFill \/ MetricsPrice \/ MetricsClear

SpecMetrics == InitMetrics /\ [][NextMetrics]_vars

----------------------------------------------------------------------------
(* The market data table under the events of the price stream, for two       *)
(* symbols.  A field of an event either reads as a number or does not.       *)

MarketSymbols == {"BTCUSDT", "ETHUSDT"}

TickerEvents ==
    [symbol : MarketSymbols,
     close_price : {Some(80), Some(125), None},
     open_price : {Some(100), None},
     high_price : {Some(130), Some(140), None},
     low_price : {Some(70), None}]

InitMarket ==
    /\ slots = <<NewSlot(0, ConfigSymbol, "Long", FALSE, FALSE)>>
    /\ selected_slot = 0
    /\ prices = [sym \in MarketSymbols |-> 0]
    /\ ui_mode = <<"Normal">>
    /\ next_slot_id = 1
    /\ cmdq = << >>
    /\ now = 0
    /\ pc = "select"
    /\ tickIds = << >>
    /\ inflight = << >>
    /\ snapshot = << >>
    /\ halt = [on |-> FALSE, why |-> {}]
    /\ config = [direction |-> "Long", auto_restart |-> FALSE, auto_flip |-> FALSE]
    /\ InitTables
    /\ NoConfirmHistory

\* price_rx.recv() branch (main.rs 232-240) for any event of the stream
RecvTicker == \E event \in TickerEvents : RecvTickerEvent(event)

NextMarket == RecvTicker

SpecMarket == InitMarket /\ [][NextMarket]_vars

----------------------------------------------------------------------------
(* run_alert_engine (main.rs 1105-1226): every five minutes, for each        *)
(* symbol of a slot, support and resistance are taken from the closed        *)
(* candles and compared with the last price the alert engine saw.            *)

cooldown_minutes == 2   \* AlertsConfig::cooldown_minutes, in clock units
LogCapacity == 100

\* candles as get_klines returns them; the last one is the open candle
Klines ==
    {<< >>,
     <<[high |-> 200, low |-> 10]>>,
     <<[high |-> 110, low |-> 95], [high |-> 105, low |-> 90], [high |-> 200, low |-> 10]>>,
     <<[high |-> 120, low |-> 100], [high |-> 90, low |-> 60]>>}

completed(klines) == SubSeq(klines, 1, Len(klines) - 1)

\* fold(NEG_INFINITY, f64::max) over the highs of the closed candles
resistance_of(klines) ==
    LET highs == {completed(klines)[i].high : i \in 1..Len(completed(klines))}
    IN CHOOSE h \in highs : \A g \in highs : g <= h

\* fold(INFINITY, f64::min) over the lows of the closed candles
support_of(klines) ==
    LET lows == {completed(klines)[i].low : i \in 1..Len(completed(klines))}
    IN CHOOSE l \in lows : \A g \in lows : l <= g

support_broken_below(current_price, prev_price, support) ==
    current_price < support

support_broken(current_price, prev_price, support) ==
    current_price < support /\ prev_price >= support

resistance_broken(current_price, prev_price, resistance) ==
    current_price > resistance /\ prev_price <= resistance

cooldown_ignored(last, t) == TRUE

\* last.map_or(true, |t| now.duration_since(t) >= cooldown)
cooldown_ok(last, t) ==
    last = None \/ t - last[1] >= cooldown_minutes

\* AppState::log_alert (app.rs 154-162)
log_alert(lg, entry) ==
    (IF Len(lg) >= LogCapacity THEN Tail(lg) ELSE lg) \o <<entry>>

\* the body of the loop over the symbols, for one symbol
AlertIteration(symbol, klines) ==
    IF Len(klines) <= 1 \/ prices[symbol] = 0
    THEN UNCHANGED vars
    ELSE LET resistance == resistance_of(klines)
             support == support_of(klines)
             current_price == prices[symbol]
             l == alert_levels[symbol]
             prev_price == IF l = None THEN current_price ELSE l[1].prev_price
             last_sup == IF l = None THEN None ELSE l[1].last_support_alert
             last_res == IF l = None THEN None ELSE l[1].last_resistance_alert
             sup_fires == support_broken(current_price, prev_price, support)
                              /\ cooldown_ok(last_sup, now)
             res_fires == resistance_broken(current_price, prev_price, resistance)
                              /\ cooldown_ok(last_res, now)
             log1 == IF sup_fires
                     THEN log_alert(log, [symbol |-> symbol, kind |-> "support", at |-> now])
                     ELSE log
             log2 == IF res_fires
                     THEN log_alert(log1, [symbol |-> symbol, kind |-> "resistance", at |-> now])
                     ELSE log1
         IN /\ log' = log2
            /\ alert_levels' = [alert_levels EXCEPT ![symbol] =
                   Some([resistance |-> resistance,
                         support |-> support,
                         prev_price |-> current_price,
                         last_support_alert |->
                             IF sup_fires THEN Some(now) ELSE last_sup,
                         last_resistance_alert |->
                             IF res_fires THEN Some(now) ELSE last_res])]
            /\ UNCHANGED <<slots, selected_slot, prices, ui_mode, next_slot_id, cmdq,
                           now, pc, tickIds, inflight, snapshot, halt, config,
                           prices_24h, mutex, confirm_for>>

AlertEngine ==
    \E i \in 1..Len(slots), klines \in Klines :
        AlertIteration(slots[i].symbol, klines)

InitAlerts ==
    /\ slots = <<NewSlot(0, ConfigSymbol, "Long", FALSE, FALSE)>>
    /\ selected_slot = 0
    /\ prices = [sym \in Symbols |-> 0]
    /\ ui_mode = <<"Normal">>
    /\ next_slot_id = 1
    /\ cmdq = << >>
    /\ now = 0
    /\ pc = "select"
    /\ tickIds = << >>
    /\ inflight = << >>
    /\ snapshot = << >>
    /\ halt = [on |-> FALSE, why |-> {}]
    /\ config = [direction |-> "Long", auto_restart |-> FALSE, auto_flip |-> FALSE]
    /\ InitTables
    /\ NoConfirmHistory

NextAlerts == RecvPrice \/ AdvanceTime \/ AlertEngine

SpecAlerts == InitAlerts /\ [][NextAlerts]_vars

----------------------------------------------------------------------------
(* Two strategies side by side: a start on a file of two records, a Long     *)
(* one and a Short one on the same symbol                                    *)

PairFiles ==
    {<<to_snapshot(a), to_snapshot(b)>> :
        a \in {AsStarted("Long"), AsEntered("Long")},
        b \in {AsStarted("Short"), AsEntered("Short")}}

InitPair ==
    /\ pc = "boot"
    /\ snapshot \in PairFiles
    /\ slots = << >>
    /\ selected_slot = 0
    /\ prices = [sym \in Symbols |-> 0]
    /\ ui_mode = <<"Normal">>
    /\ next_slot_id = 0
    /\ cmdq = << >>
    /\ now = 0
    /\ tickIds = << >>
    /\ inflight = << >>
    /\ halt = [on |-> FALSE, why |-> {}]
    /\ config \in {c \in Configs : c.direction = "Long" /\ ~c.auto_flip}
    /\ InitTables
    /\ NoConfirmHistory

NextPair ==
    \/ Main
    \/ AdvanceTime
    \/ RecvPrice
    \/ StrategyTick
    \/ OrderOk
    \/ OrderErr

SpecPair == InitPair /\ [][NextPair]_vars

----------------------------------------------------------------------------
(* refresh_balance (main.rs 1057-1071): before the loop of the engine and on *)
(* every balance tick, the free balances of the account are copied into the  *)
(* slots                                                                     *)

\* parse_symbol (main.rs 1230-1240) on the symbols of the model
base_asset(symbol) == IF symbol = "ETHUSDT" THEN "ETH" ELSE "BTC"

quote_asset(symbol) == "USDT"

\* the free balances get_account returns, by asset
Accounts ==
    {("USDT" :> 0),
     ("BTC" :> 5 @@ "USDT" :> 0),
     ("BTC" :> 5 @@ "USDT" :> 10000)}

\* AccountInfo::get_free (account.rs 35-41)
get_free(account, asset) ==
    IF asset \in DOMAIN account THEN account[asset] ELSE 0

\* result is Some(account) for Ok(account), None for Err(e)
refresh_balance(ss, result) ==
    IF result = None THEN ss
    ELSE [i \in 1..Len(ss) |->
             [ss[i] EXCEPT
                 !.base_balance = get_free(result[1], base_asset(ss[i].symbol)),
                 !.quote_balance = get_free(result[1], quote_asset(ss[i].symbol))]]

\* balance_tick.tick() branch (main.rs 266-269) and the call at main.rs 226
RefreshBalance ==
    /\ SelectReady
    /\ \E result \in {None} \cup {Some(account) : account \in Accounts} :
          slots' = refresh_balance(slots, result)
    /\ UNCHANGED <<selected_slot, prices, ui_mode, next_slot_id, cmdq, now, pc,
                   tickIds, inflight, snapshot, halt, config, prices_24h,
                   alert_levels, log, mutex, confirm_for>>

BalanceFiles ==
    {<<to_snapshot(s)>> : s \in {AsStarted("Long"), AsEntered("Long"),
                                 AsStarted("Short"), AsEntered("Short")}}

InitBalance ==
    /\ pc = "boot"
    /\ snapshot \in BalanceFiles
    /\ slots = << >>
    /\ selected_slot = 0
    /\ prices = [sym \in Symbols |-> 0]
    /\ ui_mode = <<"Normal">>
    /\ next_slot_id = 0
    /\ cmdq = << >>
    /\ now = 0
    /\ tickIds = << >>
    /\ inflight = << >>
    /\ halt = [on |-> FALSE, why |-> {}]
    /\ config \in {c \in Configs : c.direction = "Long" /\ ~c.auto_flip}
    /\ InitTables
    /\ NoConfirmHistory

NextBalance ==
    \/ Main
    \/ AdvanceTime
    \/ RecvPrice
    \/ RefreshBalance
    \/ StrategyTick
    \/ OrderOk
    \/ OrderErr

SpecBalance == InitBalance /\ [][NextBalance]_vars

----------------------------------------------------------------------------
(* The lock around AppState (tokio::sync::Mutex, not reentrant).  Each path  *)
(* of a handler is the sequence of what it does to the lock and of the I/O   *)
(* it awaits: "lock" and "unlock" where a guard is taken and dropped,        *)
(* "order", "account", "klines" for the calls of the exchange, "write" for   *)
(* the snapshot file, "config" for config.toml.                              *)

IoOps == {"order", "account", "klines", "write", "config"}

\* every path of A followed by every path of B
Then(A, B) == {a \o b : a \in A, b \in B}

Skip == {<< >>}

\* a guard taken and dropped with no await in between: `let s = state.lock()
\* .await; ...` up to the end of its block or drop(s), or a temporary
\* `state.lock().await.f()`
Locked == {<<"lock", "unlock">>}

\* a save that writes the file with the guard still alive
save_all_snapshots_locked == {<<"lock", "write", "unlock">>}

\* save_all_snapshots (main.rs 1046-1054): the snapshots are collected in a
\* block, the file is written after it
save_all_snapshots_ops == Then(Locked, {<<"write">>})

\* refresh_balance (main.rs 1057-1071): get_account, then the guard on Ok
refresh_balance_ops == Then({<<"account">>}, Locked \cup Skip)

\* update_symbol_watch (main.rs 1037-1043)
update_symbol_watch_ops == Locked

\* what follows a change of the slot list (main.rs 314-316, 391-393, 498-500)
AfterSlotListChange ==
    Then(update_symbol_watch_ops, Then(save_all_snapshots_ops, refresh_balance_ops))

\* handle_command (main.rs 275-673), by command
handle_command_ops(cmd) ==
    CASE cmd = "RestoreSessionDiscard" -> Then(Locked, AfterSlotListChange)
      [] cmd \in {"ToggleStartStopSelected", "ToggleAutoFlip"} ->
             Locked \cup Then(Locked, save_all_snapshots_ops)
      [] cmd = "ConfirmDeleteNow" ->
             Locked \cup Then(Locked, Then(Locked, AfterSlotListChange))
      [] cmd = "NewStratConfirm" ->
             Then(Locked, Locked) \cup Then(Locked, Then(Locked, AfterSlotListChange))
      [] cmd = "PostSaleRestart" -> Then(Locked, save_all_snapshots_ops)
      [] cmd = "ConfirmCloseNow" ->
             Then(Locked, Locked)                      \* no slot selected
             \cup Then(Locked, Then(Locked, Locked))   \* no position
             \cup Then(Locked, Then(Locked, Then(Locked, Then({<<"order">>},
                     Then(Locked, save_all_snapshots_ops) \cup Locked))))
      [] cmd = "CfgConfirm" ->
             Then(Locked, Locked)                      \* invalid amount
             \cup Then(Locked, Then(Locked, Then({<<"config">>}, Skip \cup Locked)))
      [] OTHER -> Locked

Commands ==
    {"Quit", "RestoreSessionContinue", "RestoreSessionDiscard", "SlotSelectUp",
     "SlotSelectDown", "ToggleStartStopSelected", "ToggleAutoFlip",
     "OpenConfirmDelete", "ConfirmDeleteNow", "OpenNewStrategy",
     "NewStratSymbolUp", "NewStratSymbolDown", "NewStratToggleDirection",
     "NewStratToggleAutoRestart", "NewStratToggleAutoFlip", "NewStratToggleBnb",
     "NewStratCancel", "NewStratConfirm", "PostSaleRestart", "PostSaleDismiss",
     "OpenConfig", "CloseConfig", "CfgInputChar", "CfgBackspace",
     "OpenConfirmClose", "ConfirmCloseNow", "CfgConfirm", "CfgToggleBnb"}

\* evaluate_slot (main.rs 676-1034): the locked section of the decisions, then
\* nothing, or the log line (the order number for an entry), the order and the
\* arm of its result
evaluate_slot_ops ==
    Then(Locked,
         Skip \cup Then(Locked, Then({<<"order">>},
                           Then(Locked, save_all_snapshots_ops) \cup Locked)))

\* run_strategy_engine (main.rs 212-272): the refresh before the loop and the
\* branches of the select
run_strategy_engine_ops ==
    refresh_balance_ops
    \cup Locked
    \cup UNION {Then(handle_command_ops(cmd), Locked) : cmd \in Commands}
    \cup Then(Locked, evaluate_slot_ops)
    \cup Then(Locked, Then(evaluate_slot_ops, evaluate_slot_ops))

\* run_alert_engine (main.rs 1119-1225): the symbols, then for a symbol the
\* candles, the price, the previous level, the alerts and the update
run_alert_engine_ops ==
    Then(Locked,
         Skip \cup Then({<<"klines">>},
                      Skip \cup Then(Locked,
                                   Skip \cup Then(Locked,
                                                Then(Skip \cup Locked,
                                                     Then(Skip \cup Locked, Locked))))))

TaskOps(task) ==
    IF task = "engine" THEN run_strategy_engine_ops ELSE run_alert_engine_ops

Tasks == {"engine", "alerts"}

\* a task idle at its select or its interval starts a path
Begins(task) ==
    /\ mutex.ops[task] = << >>
    /\ \E path \in TaskOps(task) :
          /\ path # << >>
          /\ mutex' = [mutex EXCEPT !.ops[task] = path]

\* state.lock().await: granted when no task holds the mutex; a task that
\* holds it already waits for itself for ever
Acquire(task) ==
    /\ mutex.ops[task] # << >>
    /\ Head(mutex.ops[task]) = "lock"
    /\ mutex.owner = "none"
    /\ mutex' = [mutex EXCEPT !.owner = task, !.ops[task] = Tail(@)]

\* the guard is dropped
Release(task) ==
    /\ mutex.ops[task] # << >>
    /\ Head(mutex.ops[task]) = "unlock"
    /\ mutex' = [mutex EXCEPT !.owner = IF @ = task THEN "none" ELSE @,
                              !.ops[task] = Tail(@)]

\* an awaited call of the exchange or a file write returns
Io(task) ==
    /\ mutex.ops[task] # << >>
    /\ Head(mutex.ops[task]) \in IoOps
    /\ mutex' = [mutex EXCEPT !.ops[task] = Tail(@)]

TaskBegins ==
    /\ \E task \in Tasks : Begins(task)
    /\ UNCHANGED <<slots, selected_slot, prices, ui_mode, next_slot_id, cmdq, now,
                   pc, tickIds, inflight, snapshot, halt, config, prices_24h,
                   alert_levels, log, confirm_for>>

TaskAcquires ==
    /\ \E task \in Tasks : Acquire(task)
    /\ UNCHANGED <<slots, selected_slot, prices, ui_mode, next_slot_id, cmdq, now,
                   pc, tickIds, inflight, snapshot, halt, config, prices_24h,
                   alert_levels, log, confirm_for>>

TaskReleases ==
    /\ \E task \in Tasks : Release(task)
    /\ UNCHANGED <<slots, selected_slot, prices, ui_mode, next_slot_id, cmdq, now,
                   pc, tickIds, inflight, snapshot, halt, config, prices_24h,
                   alert_levels, log, confirm_for>>

TaskIo ==
    /\ \E task \in Tasks : Io(task)
    /\ UNCHANGED <<slots, selected_slot, prices, ui_mode, next_slot_id, cmdq, now,
                   pc, tickIds, inflight, snapshot, halt, config, prices_24h,
                   alert_levels, log, confirm_for>>

NextLock == TaskBegins \/ TaskAcquires \/ TaskReleases \/ TaskIo

SpecLock == InitAlerts /\ [][NextLock]_vars

----------------------------------------------------------------------------
(* The manual close with two positions open: a start on a file of two        *)
(* records with one entry each, then the keys of the selection and of the    *)
(* overlay.  No price arrives and no time passes in these runs.              *)

CloseFiles == {<<to_snapshot(AsEntered("Long")), to_snapshot(AsEntered("Short"))>>}

InitClose ==
    /\ pc = "boot"
    /\ snapshot \in CloseFiles
    /\ slots = << >>
    /\ selected_slot = 0
    /\ prices = [sym \in Symbols |-> 0]
    /\ ui_mode = <<"Normal">>
    /\ next_slot_id = 0
    /\ cmdq = << >>
    /\ now = 0
    /\ tickIds = << >>
    /\ inflight = << >>
    /\ halt = [on |-> FALSE, why |-> {}]
    /\ config \in {c \in Configs : c.direction = "Long" /\ ~c.auto_restart}
    /\ InitTables
    /\ confirm_for = [on |-> TRUE, id |-> None]

CloseKeys == {"v", "Up", "Down", "Enter", "Esc"}

\* Tui::handle_key for these keys (tui.rs 84-226)
KeyCmdClose(mode, key) ==
    IF mode[1] = "Normal" /\ key \in {"Up", "Down"}
    THEN KeyCmdRegistry(mode, key, Len(slots))
    ELSE KeyCmd(mode, key)

KeyPressClose ==
    /\ Len(cmdq) < MaxRegistryQueue
    /\ pc # "boot"
    /\ \E key \in CloseKeys :
          /\ KeyCmdClose(ui_mode, key) # None
          /\ cmdq' = Append(cmdq, KeyCmdClose(ui_mode, key)[1])
    /\ UNCHANGED <<slots, selected_slot, prices, ui_mode, next_slot_id, now, pc,
                   tickIds, inflight, snapshot, halt, config, prices_24h,
                   alert_levels, log, mutex, confirm_for>>

NextClose ==
    \/ Main
    \/ KeyPressClose
    \/ RestoreSessionContinue
    \/ RestoreSessionDiscard
    \/ SlotSelectUp
    \/ SlotSelectDown
    \/ OpenConfirmClose
    \/ ConfirmCloseNow
    \/ CloseConfig
    \/ PostSaleDismiss
    \/ OrderOk
    \/ OrderErr

SpecClose == InitClose /\ [][NextClose]_vars

----------------------------------------------------------------------------
(* The configuration panel (main.rs 524-545, 634-666): the amount typed in   *)
(* the panel replaces quote_amount of every slot.  The runs start on the     *)
(* file of one started strategy and press the keys of the panel while the    *)
(* engine ticks, fills and the clock goes on.                                *)

\* cfg_amount_buf when Enter is pressed, as its digits: the keys typed since
\* OpenConfig filled it (CfgInputChar keeps digits only, main.rs 537-545)
CfgBuffers == {<< >>, <<0>>, <<2, 0, 0, 0>>, <<4, 0, 0, 0>>}

\* str::parse::<f64> on a buffer of digits: None on the empty buffer
RECURSIVE parse_digits(_)
parse_digits(buf) ==
    IF buf = << >> THEN 0
    ELSE 10 * parse_digits(SubSeq(buf, 1, Len(buf) - 1)) + buf[Len(buf)]

parse_amount(buf) == IF buf = << >> THEN None ELSE Some(parse_digits(buf))

\* main.rs 524-533
OpenConfig ==
    /\ Recv("OpenConfig")
    /\ ui_mode' = <<"Config">>
    /\ UNCHANGED <<slots, selected_slot, prices, next_slot_id, now, pc, tickIds,
                   inflight, snapshot, halt, config, prices_24h,
                   alert_levels, log, mutex, confirm_for>>

\* main.rs 634-666; cfg_has_bnb is the selected slot's flag, as OpenConfig
\* set it (no CfgToggleBnb in these runs); config.toml is written, the
\* snapshots are not
CfgConfirm ==
    /\ Recv("CfgConfirm")
    /\ \E buf \in CfgBuffers :
          LET amount == parse_amount(buf)
              bnb == IF HasSelected THEN selected.has_bnb_balance ELSE FALSE
          IN  IF amount # None /\ amount[1] >= 1
              THEN /\ slots' = [i \in 1..Len(slots) |->
                                   [slots[i] EXCEPT !.quote_amount = amount[1],
                                                    !.has_bnb_balance = bnb]]
                   /\ ui_mode' = <<"Normal">>
              ELSE UNCHANGED <<slots, ui_mode>>
    /\ UNCHANGED <<selected_slot, prices, next_slot_id, now, pc, tickIds,
                   inflight, snapshot, halt, config, prices_24h,
                   alert_levels, log, mutex, confirm_for>>

ConfigFiles == {<<to_snapshot(AsStarted(d))>> : d \in {"Long", "Short"}}

InitConfig ==
    /\ pc = "boot"
    /\ snapshot \in ConfigFiles
    /\ slots = << >>
    /\ selected_slot = 0
    /\ prices = [sym \in Symbols |-> 0]
    /\ ui_mode = <<"Normal">>
    /\ next_slot_id = 0
    /\ cmdq = << >>
    /\ now = 0
    /\ tickIds = << >>
    /\ inflight = << >>
    /\ halt = [on |-> FALSE, why |-> {}]
    /\ config \in {c \in Configs : c.auto_restart /\ ~c.auto_flip}
    /\ InitTables
    /\ NoConfirmHistory

ConfigKeys == {"c", "Enter", "Esc"}

\* Tui::handle_key for these keys (tui.rs 84-226)
KeyCmdConfig(mode, key) ==
    IF mode[1] = "Config"
    THEN IF key = "Esc" THEN Some(<<"CloseConfig">>)
         ELSE IF key = "Enter" THEN Some(<<"CfgConfirm">>)
         ELSE None
    ELSE IF mode[1] = "Normal" /\ key = "c" THEN Some(<<"OpenConfig">>)
    ELSE KeyCmd(mode, key)

KeyPressConfig ==
    /\ Len(cmdq) < MaxQueue
    /\ pc # "boot"
    /\ \E key \in ConfigKeys :
          /\ KeyCmdConfig(ui_mode, key) # None
          /\ cmdq' = Append(cmdq, KeyCmdConfig(ui_mode, key)[1])
    /\ UNCHANGED <<slots, selected_slot, prices, ui_mode, next_slot_id, now, pc,
                   tickIds, inflight, snapshot, halt, config, prices_24h,
                   alert_levels, log, mutex, confirm_for>>

NextConfig ==
    \/ Main
    \/ KeyPressConfig
    \/ RestoreSessionContinue
    \/ RestoreSessionDiscard
    \/ OpenConfig
    \/ CfgConfirm
    \/ CloseConfig
    \/ AdvanceTime
    \/ RecvPrice
    \/ StrategyTick
    \/ OrderOk
    \/ OrderErr

SpecConfig == InitConfig /\ [][NextConfig]_vars
----------------------------------------------------------------------------
(* The auto-flip (main.rs 353-366, 800-812, 875-887): the runs start on the  *)
(* file of one Running strategy with an entry, written under the direction   *)
(* of the configuration; the user toggles the flag while the engine takes    *)
(* profits, restarts and enters again.                                       *)

\* main.rs 353-366
ToggleAutoFlip ==
    /\ Recv("ToggleAutoFlip")
    /\ IF HasSelected
       THEN LET slots1 == [slots EXCEPT ![selected_slot + 1].auto_flip = ~@]
            IN  /\ slots' = slots1
                /\ snapshot' = save_all_snapshots(slots1)
       ELSE UNCHANGED <<slots, snapshot>>
    /\ UNCHANGED <<selected_slot, prices, ui_mode, next_slot_id, now, pc, tickIds,
                   inflight, halt, config, prices_24h,
                   alert_levels, log, mutex, confirm_for>>

InitFlip ==
    /\ pc = "boot"
    /\ config \in {c \in Configs : c.auto_restart}
    /\ snapshot = <<to_snapshot(AsEntered(config.direction))>>
    /\ slots = << >>
    /\ selected_slot = 0
    /\ prices = [sym \in Symbols |-> 0]
    /\ ui_mode = <<"Normal">>
    /\ next_slot_id = 0
    /\ cmdq = << >>
    /\ now = 0
    /\ tickIds = << >>
    /\ inflight = << >>
    /\ halt = [on |-> FALSE, why |-> {}]
    /\ InitTables
    /\ NoConfirmHistory

FlipKeys == {"f", "c"}

\* Tui::handle_key for these keys (tui.rs 84-226)
KeyCmdFlip(mode, key) ==
    IF mode[1] = "Normal" /\ key = "f" THEN Some(<<"ToggleAutoFlip">>)
    ELSE KeyCmd(mode, key)

KeyPressFlip ==
    /\ Len(cmdq) < MaxQueue
    /\ pc # "boot"
    /\ \E key \in FlipKeys :
          /\ KeyCmdFlip(ui_mode, key) # None
          /\ cmdq' = Append(cmdq, KeyCmdFlip(ui_mode, key)[1])
    /\ UNCHANGED <<slots, selected_slot, prices, ui_mode, next_slot_id, now, pc,
                   tickIds, inflight, snapshot, halt, config, prices_24h,
                   alert_levels, log, mutex, confirm_for>>

NextFlip ==
    \/ Main
    \/ KeyPressFlip
    \/ RestoreSessionContinue
    \/ ToggleAutoFlip
    \/ AdvanceTime
    \/ RecvPrice
    \/ StrategyTick
    \/ OrderOk
    \/ OrderErr

SpecFlip == InitFlip /\ [][NextFlip]_vars
----------------------------------------------------------------------------
(* The engine under fairness: the interval of the strategy tick fires again  *)
(* and again (main.rs 259-264) and every order the engine awaits is answered *)
(* with a fill.  The runs start on the file of two Running strategies, a     *)
(* Long one with no entry yet and a Short one with a position.               *)

LiveFiles == {<<to_snapshot(AsStarted("Long")), to_snapshot(AsEntered("Short"))>>}

InitLive ==
    /\ pc = "boot"
    /\ snapshot \in LiveFiles
    /\ slots = << >>
    /\ selected_slot = 0
    /\ prices = [sym \in Symbols |-> 0]
    /\ ui_mode = <<"Normal">>
    /\ next_slot_id = 0
    /\ cmdq = << >>
    /\ now = 0
    /\ tickIds = << >>
    /\ inflight = << >>
    /\ halt = [on |-> FALSE, why |-> {}]
    /\ config = [direction |-> "Long", auto_restart |-> TRUE, auto_flip |-> FALSE]
    /\ InitTables
    /\ NoConfirmHistory

LiveKeys == {"x", "c"}

KeyPressLive ==
    /\ Len(cmdq) < MaxQueue
    /\ pc # "boot"
    /\ \E key \in LiveKeys :
          /\ KeyCmd(ui_mode, key) # None
          /\ cmdq' = Append(cmdq, KeyCmd(ui_mode, key)[1])
    /\ UNCHANGED <<slots, selected_slot, prices, ui_mode, next_slot_id, now, pc,
                   tickIds, inflight, snapshot, halt, config, prices_24h,
                   alert_levels, log, mutex, confirm_for>>

NextLive ==
    \/ Main
    \/ KeyPressLive
    \/ RestoreSessionContinue
    \/ ToggleStartStopSelected
    \/ AdvanceTime
    \/ RecvPrice
    \/ StrategyTick
    \/ OrderOk

\* ENABLED <<StrategyTick>>_vars: the engine is at its select and the loop
\* over the slots changes a slot or submits an order
TickEnabled ==
    /\ SelectReady
    /\ LET r == RunTick(slots, SlotIds(slots), prices, now)
       IN  r.slots # slots \/ r.order # None \/ r.rest # tickIds

\* WF_vars(StrategyTick), with its ENABLED written as TickEnabled: the
\* interval of the strategy tick fires again and again (main.rs 222-224,
\* 259), so a tick that stays possible is taken
TickFair == []<>(~TickEnabled) \/ []<><<StrategyTick>>_vars

\* WF_vars(OrderOk): ENABLED <<OrderOk>>_vars is pc = "order", the engine
\* awaiting the exchange, and every order is answered with a fill
OrderFair == []<>(pc # "order") \/ []<><<OrderOk>>_vars

\* main() runs up to the spawn of the engine (main.rs 74-198)
SpecLive ==
    /\ InitLive
    /\ [][NextLive]_vars
    /\ WF_vars(Main)
    /\ TickFair
    /\ OrderFair
----------------------------------------------------------------------------
(* Properties *)

CloseKinds == {"SL", "TP", "TTP", "MANUAL"}

AutoCloseKinds == {"SL", "TP", "TTP"}

Orders == {inflight[i] : i \in 1..Len(inflight)}

\* C1: at most one order is in flight per slot: between the submission of an
\* entry or closing order for a slot and the handling of its result, neither
\* the strategy tick nor a manual close submits another order for that slot.
C1_OneOrderInFlightPerSlot ==
    \A i, j \in 1..Len(inflight) :
        inflight[i].slot_id = inflight[j].slot_id => i = j

\* an order of the tick is awaited while a manual close waits in the channel
C1_Witness ==
    /\ Len(inflight) = 1
    /\ inflight[1].origin = "tick"
    /\ cmdq # << >>
    /\ Head(cmdq) = <<"ConfirmCloseNow">>
    /\ HasSelected
    /\ selected.id = inflight[1].slot_id

\* C2: the order a pass of evaluate_slot submits follows the priority stop
\* loss > take profit > trailing take profit > entry: an entry is submitted
\* only if no closing condition holds for the slot at the evaluated price, a
\* take profit only if the stop loss does not hold, a trailing take profit
\* only if neither does; and the pass has one order in flight at most.
C2_PriorityOrder ==
    /\ Cardinality({i \in 1..Len(inflight) : inflight[i].origin = "tick"}) <= 1
    /\ \A o \in Orders :
          (o.origin = "tick" /\ HasSlot(slots, o.slot_id)) =>
             LET s == slot_by_id(slots, o.slot_id)
                 sl == should_stop_loss(s, o.price) /\ total_quantity(s) > 0
                 tp == should_take_profit(s, o.price) /\ total_quantity(s) > 0
                 ttp == should_trailing_tp(s, o.price) /\ total_quantity(s) > 0
             IN  /\ o.kind = "SL" => sl
                 /\ o.kind = "TP" => tp /\ ~sl
                 /\ o.kind = "TTP" => ttp /\ ~tp /\ ~sl
                 /\ o.kind = "ENTRY" => ~sl /\ ~tp /\ ~ttp

\* a stop loss was submitted in a pass in which the entry condition held too
C2_Witness ==
    \E o \in Orders : o.origin = "tick" /\ o.kind = "SL" /\ o.d.should_entry

\* C3: a slot's trades are cleared only by the step that handles the Ok
\* result of its closing order (stop loss, take profit, trailing take profit,
\* manual close); the step that handles the Err result of a closing order
\* leaves every field of the slot unchanged.
C3_ClearOnlyAfterFill ==
    [][\A i \in 1..Len(slots) :
          HasSlot(slots', slots[i].id) =>
             LET s == slots[i]
                 s2 == slot_by_id(slots', s.id)
             IN  /\ (s.trades # << >> /\ s2.trades = << >>) =>
                        /\ OrderOk
                        /\ Head(inflight).slot_id = s.id
                        /\ Head(inflight).kind \in CloseKinds
                 /\ (/\ OrderErr
                     /\ Head(inflight).slot_id = s.id
                     /\ Head(inflight).kind \in CloseKinds) => s2 = s
      ]_vars

\* a manual close was filled and the position is gone
C3_Witness ==
    /\ ui_mode[1] = "PostSale"
    /\ ui_mode[3].kind = "MANUAL CLOSE"
    /\ HasSlot(slots, ui_mode[2])
    /\ slot_by_id(slots, ui_mode[2]).trades = << >>

\* the step handles the result of the order of slot id, of one of the kinds
ResultOf(kinds, id) ==
    /\ inflight # << >>
    /\ Head(inflight).slot_id = id
    /\ Head(inflight).kind \in kinds

\* no entry order is awaited for a slot halted for the reason why
NoEntryWhileHalted(why) ==
    \A h \in halt.why : h[2] = why =>
        \A o \in Orders : ~(o.slot_id = h[1] /\ o.kind = "ENTRY")

\* C4: the step that handles the Err result of an entry order leaves the slot
\* Idle with its trades and its daily spent unchanged, and from then on no
\* entry order is submitted for the slot until the user starts it again.
C4_FailedEntryHalts ==
    [][/\ \A i \in 1..Len(slots) :
            (OrderErr /\ ResultOf({"ENTRY"}, slots[i].id)
                      /\ HasSlot(slots', slots[i].id)) =>
               LET s2 == slot_by_id(slots', slots[i].id)
               IN  /\ s2.state = "Idle"
                   /\ s2.trades = slots[i].trades
                   /\ s2.daily_spent = slots[i].daily_spent
       /\ NoEntryWhileHalted("entry_failed")'
      ]_vars

\* C5: the step that handles the Err result of a closing order of the tick
\* (stop loss, take profit, trailing take profit) leaves the slot halted, not
\* Running, and from then on no closing order is submitted for the slot by
\* the tick until the user starts it again.
C5_FailedCloseHalts ==
    [][/\ \A i \in 1..Len(slots) :
            (OrderErr /\ ResultOf(AutoCloseKinds, slots[i].id)
                      /\ Head(inflight).origin = "tick"
                      /\ HasSlot(slots', slots[i].id)) =>
               slot_by_id(slots', slots[i].id).state # "Running"
       /\ \A h \in halt'.why : h[2] = "close_failed" =>
             \A o \in Orders' :
                ~(o.slot_id = h[1] /\ o.origin = "tick" /\ o.kind \in AutoCloseKinds)
      ]_vars

\* C6: the step that handles the Ok result of a stop loss order leaves the
\* slot Idle with no trades, and from then on no entry order is submitted for
\* the slot until the user starts it again.
C6_StopLossEndsIdle ==
    [][/\ \A i \in 1..Len(slots) :
            (OrderOk /\ ResultOf({"SL"}, slots[i].id)
                     /\ HasSlot(slots', slots[i].id)) =>
               LET s2 == slot_by_id(slots', slots[i].id)
               IN  s2.state = "Idle" /\ s2.trades = << >>
       /\ NoEntryWhileHalted("stop_loss")'
      ]_vars

\* C7: the step that handles the Ok result of a take profit or trailing take
\* profit order of a slot whose auto-restart is off leaves the slot Idle with
\* no trades and the interface in PostSale for that slot with the result.
C7_TakeProfitEndsIdle ==
    [][\A i \in 1..Len(slots) :
          (OrderOk /\ ResultOf({"TP", "TTP"}, slots[i].id)
                   /\ ~Head(inflight).d.auto_restart
                   /\ HasSlot(slots', slots[i].id)) =>
             LET s2 == slot_by_id(slots', slots[i].id)
             IN  /\ s2.state = "Idle"
                 /\ s2.trades = << >>
                 /\ ui_mode'[1] = "PostSale"
                 /\ ui_mode'[2] = slots[i].id
                 /\ ui_mode'[3].kind \in {"TAKE PROFIT", "TRAILING TP"}
      ]_vars

\* C8: the step that handles the Ok result of a take profit or trailing take
\* profit order of a slot whose auto-restart is on leaves the slot Running
\* with no trades and reset price extremes, its direction flipped if and only
\* if auto-flip is on, and the interface mode unchanged (no PostSale).
C8_AutoRestart ==
    [][\A i \in 1..Len(slots) :
          (OrderOk /\ ResultOf({"TP", "TTP"}, slots[i].id)
                   /\ Head(inflight).d.auto_restart
                   /\ HasSlot(slots', slots[i].id)) =>
             LET s == slots[i]
                 s2 == slot_by_id(slots', s.id)
             IN  /\ s2.state = "Running"
                 /\ s2.trades = << >>
                 /\ s2.price_peak = 0
                 /\ s2.price_trough = PriceTroughUnset
                 /\ s2.direction = IF Head(inflight).d.auto_flip
                                   THEN flip(s.direction) ELSE s.direction
                 /\ ui_mode' = ui_mode
      ]_vars

\* a take profit order is awaited for a slot with auto-restart and no
\* auto-flip, whose price extreme has moved
C8_Witness ==
    /\ pc = "order"
    /\ \E i \in 1..Len(slots) :
          /\ ResultOf({"TP", "TTP"}, slots[i].id)
          /\ Head(inflight).d.auto_restart
          /\ ~Head(inflight).d.auto_flip
          /\ (slots[i].price_peak # 0 \/ slots[i].price_trough # PriceTroughUnset)

\* C9: the first entry is immediate: for a Running slot with no trades, a
\* price and room under the order and daily caps, should_buy is true, so
\* the first tick after start() submits the entry without waiting.
C9_FirstEntryImmediate ==
    \A i \in 1..Len(slots) :
        LET s == tick(slots[i], now)
        IN  (/\ s.state = "Running"
             /\ s.trades = << >>
             /\ prices[s.symbol] # 0
             /\ Len(s.trades) < max_orders
             /\ s.daily_spent + s.quote_amount <= max_daily_spend)
            => should_buy(s, prices[s.symbol], now, max_daily_spend)

\* the entry is due: a full interval since the last entry time, or the move
\* against the position since the last entry price reached the trigger
EntryDue(s, p, t) ==
    /\ s.last_buy_time # None
    /\ \/ t - s.last_buy_time[1] >= interval_minutes
       \/ /\ s.last_buy_price # None
          /\ IF s.direction = "Long"
             THEN (s.last_buy_price[1] - p) * 100 >= price_drop_trigger * s.last_buy_price[1]
             ELSE (p - s.last_buy_price[1]) * 100 >= price_drop_trigger * s.last_buy_price[1]

\* C10: start() leaves the slot Running; on a slot that was not Running it
\* stamps the current time as the last entry time and changes nothing else,
\* on a Running slot it changes nothing; and a step submits an entry only
\* when a full interval has elapsed since that time or the price-move
\* trigger fires.
C10_StartStampsOnce ==
    [][/\ (ToggleStartStopSelected /\ HasSelected /\ selected.state # "Running") =>
             slots'[selected_slot + 1] =
                 [selected EXCEPT !.state = "Running", !.last_buy_time = Some(now)]
       /\ (PostSaleRestart /\ HasSlot(slots, Head(cmdq)[2])) =>
             LET s == slot_by_id(slots, Head(cmdq)[2])
                 s2 == slot_by_id(slots', Head(cmdq)[2])
             IN  /\ s2.state = "Running"
                 /\ s.state = "Running" => s2 = s
                 /\ s.state # "Running" =>
                        s2 = [s EXCEPT !.state = "Running", !.last_buy_time = Some(now)]
       /\ \A o \in Orders' :
             (o.kind = "ENTRY" /\ o \notin Orders) =>
                 EntryDue(slot_by_id(slots, o.slot_id), o.price, now)
      ]_vars

\* PostSaleRestart is next for a slot that runs since an earlier time
C10_Witness ==
    /\ pc = "select"
    /\ cmdq # << >>
    /\ Head(cmdq)[1] = "PostSaleRestart"
    /\ HasSlot(slots, Head(cmdq)[2])
    /\ slot_by_id(slots, Head(cmdq)[2]).state = "Running"
    /\ slot_by_id(slots, Head(cmdq)[2]).last_buy_time # Some(now)

\* C11: an entry order is submitted only for a slot that is Running, whose
\* trade count is below max_orders, and whose daily_spent plus quote_amount
\* does not exceed max_daily_spend: every entry order awaited belongs to such
\* a slot.
C11_EntryGates ==
    \A o \in Orders : \A i \in 1..Len(slots) :
        (o.kind = "ENTRY" /\ o.slot_id = slots[i].id) =>
            /\ slots[i].state = "Running"
            /\ Len(slots[i].trades) < max_orders
            /\ slots[i].daily_spent + slots[i].quote_amount <= max_daily_spend

\* the daily cap alone holds an entry back: the tick has looked at a Running
\* Long slot under max_orders whose interval has elapsed, on the day its
\* spending reached the cap, and no order is awaited
C11_Witness ==
    /\ pc = "select"
    /\ inflight = << >>
    /\ \E i \in 1..Len(slots) :
          /\ slots[i].state = "Running"
          /\ slots[i].direction = "Long"
          /\ slots[i].trades # << >>
          /\ Len(slots[i].trades) < max_orders
          /\ slots[i].daily_spent + slots[i].quote_amount > max_daily_spend
          /\ slots[i].last_reset_day = Day(now)
          /\ slots[i].last_buy_time # None
          /\ now - slots[i].last_buy_time[1] >= interval_minutes
          /\ prices[slots[i].symbol] > 0
          /\ slots[i].price_peak = prices[slots[i].symbol]

\* the price-move trigger of the claim: the move against the position since
\* the last entry price, a drop for Long and a rise for Short, in percent
MoveTrigger(s, p) ==
    /\ price_drop_trigger > 0
    /\ IF s.direction = "Long"
       THEN (s.last_buy_price[1] - p) * 100 >= price_drop_trigger * s.last_buy_price[1]
       ELSE (p - s.last_buy_price[1]) * 100 >= price_drop_trigger * s.last_buy_price[1]

\* the slot is Running, under the order and daily caps, and has an entry
PassesGates(s) ==
    /\ s.state = "Running"
    /\ Len(s.trades) < max_orders
    /\ s.daily_spent + s.quote_amount <= max_daily_spend
    /\ s.last_buy_time # None
    /\ s.last_buy_price # None

\* C12: for a Running slot under the order and daily caps that has a previous
\* entry, should_buy is true at a price if and only if a full interval has
\* elapsed since the last entry or the move since the last entry price, a
\* drop for Long and a rise for Short, reaches the trigger; either suffices.
C12_EntryTriggers ==
    \A i \in 1..Len(slots) : \A p \in PriceValues :
        PassesGates(slots[i]) =>
            (should_buy(slots[i], p, now, max_daily_spend)
                <=> \/ now - slots[i].last_buy_time[1] >= interval_minutes
                    \/ MoveTrigger(slots[i], p))

\* a Short slot awaits an entry that the rise of the price alone triggered
C12_Witness ==
    \E o \in Orders : \E i \in 1..Len(slots) :
        /\ o.kind = "ENTRY"
        /\ o.slot_id = slots[i].id
        /\ slots[i].direction = "Short"
        /\ PassesGates(slots[i])
        /\ now - slots[i].last_buy_time[1] < interval_minutes
        /\ MoveTrigger(slots[i], o.price)

\* C13: the step that handles the Ok result of an entry order appends exactly
\* one trade to the slot, sets the last entry time and price, adds the cost
\* of the fill to daily_spent, and moves the slot to MaxOrdersReached exactly
\* when the trade count has reached max_orders, else leaves its state.
C13_RecordEntry ==
    [][\A i \in 1..Len(slots) :
          (OrderOk /\ ResultOf({"ENTRY"}, slots[i].id)
                   /\ HasSlot(slots', slots[i].id)) =>
             LET s == slots[i]
                 s2 == slot_by_id(slots', s.id)
                 n == Len(s.trades)
             IN  /\ Len(s2.trades) = n + 1
                 /\ SubSeq(s2.trades, 1, n) = s.trades
                 /\ s2.trades[n + 1].cost = Fill(Head(inflight)).cummulative_quote_qty
                 /\ s2.trades[n + 1].quantity = Fill(Head(inflight)).executed_qty
                 /\ s2.last_buy_time = Some(now)
                 /\ s2.last_buy_price = Some(s2.trades[n + 1].buy_price)
                 /\ s2.daily_spent = s.daily_spent + s2.trades[n + 1].cost
                 /\ s2.state = IF n + 1 >= max_orders THEN "MaxOrdersReached"
                                                     ELSE s.state
      ]_vars

\* the entry that reached max_orders was recorded
C13_Witness ==
    \E i \in 1..Len(slots) :
        /\ slots[i].state = "MaxOrdersReached"
        /\ Len(slots[i].trades) = max_orders
        /\ slots[i].last_buy_time = Some(now)

\* C14: a slot in state Idle is not evaluated: the tick submits no order of
\* any kind for it, even if it holds trades.
C14_IdleNotEvaluated ==
    \A o \in Orders : \A i \in 1..Len(slots) :
        (o.origin = "tick" /\ o.slot_id = slots[i].id) => slots[i].state # "Idle"

\* the fields of a slot that the snapshot file keeps and the claim names
Persisted(s) ==
    [trades |-> s.trades, state |-> s.state, direction |-> s.direction,
     has_bnb_balance |-> s.has_bnb_balance]

\* C15: when the engine has finished handling an event that changed the
\* trades, the lifecycle state, the direction or the fee flag of any slot, or
\* the set of slots, the snapshot file is the serialization of the slots.
C15_SavedAfterChange ==
    [][(/\ pc' = "select"
        /\ [i \in 1..Len(slots') |-> Persisted(slots'[i])]
              # [i \in 1..Len(slots) |-> Persisted(slots[i])])
       => snapshot' = save_all_snapshots(slots')
      ]_vars

SameSnapshotFields(r, s) ==
    /\ r.trades = s.trades
    /\ r.direction = s.direction
    /\ r.state = s.state
    /\ r.last_buy_time = s.last_buy_time
    /\ r.last_buy_price = s.last_buy_price
    /\ r.daily_spent = s.daily_spent
    /\ r.last_reset_day = s.last_reset_day
    /\ r.price_peak = s.price_peak
    /\ r.price_trough = s.price_trough
    /\ r.has_bnb_balance = s.has_bnb_balance

\* a new strategy of the other direction, as the target of a restore
FreshFor(s) == NewSlot(s.id, s.symbol, flip(s.direction), s.auto_restart, s.auto_flip)

C18_SlotLimit ==
    [][/\ Len(slots') <= MAX_SLOTS
       /\ (NewStratConfirm /\ Len(slots) = MAX_SLOTS) =>
             (slots' = slots /\ next_slot_id' = next_slot_id)]_vars

\* a NewStratConfirm is about to be handled with MAX_SLOTS slots present
C18_Witness ==
    /\ Len(slots) = MAX_SLOTS
    /\ cmdq # << >>
    /\ Head(cmdq) = <<"NewStratConfirm">>
    /\ pc = "select"

\* C19: slot ids are unique, and no id is used again: every id the registry
\* comes to hold in a step is at least next_slot_id, which is above every id
\* assigned before (at the restore, or to slots deleted or discarded since),
\* and next_slot_id never decreases.
C19_IdsNeverReused ==
    [][/\ \A i, j \in 1..Len(slots') : i # j => slots'[i].id # slots'[j].id
       /\ \A i \in 1..Len(slots') : slots'[i].id < next_slot_id'
       /\ next_slot_id' >= next_slot_id
       /\ \A i \in 1..Len(slots') :
             ~HasSlot(slots, slots'[i].id) => slots'[i].id >= next_slot_id]_vars

\* MAX_SLOTS slots are live after more than MAX_SLOTS ids were handed out:
\* the newest slot was created after another was deleted
C19_Witness ==
    /\ Len(slots) = MAX_SLOTS
    /\ next_slot_id > MAX_SLOTS
    /\ HasSlot(slots, next_slot_id - 1)
    /\ \E k \in 0..(next_slot_id - 1) : ~HasSlot(slots, k)

\* C20: a slot with no trades has its running extremes unset: price_peak is
\* 0 and price_trough is the unset value.
C20_ExtremesUnsetWithoutTrades ==
    \A i \in 1..Len(slots) :
        slots[i].trades = << >> =>
            slots[i].price_peak = 0 /\ slots[i].price_trough = PriceTroughUnset

\* a position whose extreme had moved was closed, and a price is known
C20_Witness ==
    /\ ui_mode[1] = "PostSale"
    /\ HasSlot(slots, ui_mode[2])
    /\ slot_by_id(slots, ui_mode[2]).trades = << >>
    /\ prices[slot_by_id(slots, ui_mode[2]).symbol] # 0
    /\ pc = "select"
    /\ slot_by_id(slots, ui_mode[2]).last_reset_day = Day(now)

\* the step is a strategy tick
IsStrategyTick ==
    /\ pc = "select"
    /\ prices' = prices
    /\ cmdq' = cmdq
    /\ now' = now
    /\ StrategyTick

\* C21: while the position of a slot stays open, from one step to the next
\* price_peak does not decrease for a Long slot and price_trough does not
\* increase for a Short slot; and after a strategy tick every slot it has
\* evaluated with a position open has its extreme at or beyond the price of
\* that tick: at or above it for Long, at or below it for Short.
C21_ExtremeMonotone ==
    [][/\ \A i \in 1..Len(slots) :
             (/\ HasSlot(slots', slots[i].id)
              /\ slots[i].trades # << >>
              /\ slot_by_id(slots', slots[i].id).trades # << >>) =>
                LET s == slots[i]
                    s2 == slot_by_id(slots', s.id)
                IN  /\ s2.direction = s.direction
                    /\ s.direction = "Long" => s2.price_peak >= s.price_peak
                    /\ s.direction = "Short" => s2.price_trough <= s.price_trough
       /\ IsStrategyTick =>
             \A i \in 1..Len(slots') :
                (/\ slots'[i].trades # << >>
                 /\ prices[slots'[i].symbol] > 0
                 /\ \A k \in 1..Len(tickIds') : tickIds'[k] # slots'[i].id) =>
                    IF slots'[i].direction = "Long"
                    THEN slots'[i].price_peak >= prices[slots'[i].symbol]
                    ELSE slots'[i].price_trough <= prices[slots'[i].symbol]]_vars

\* a tick has evaluated a Long slot at a price below the peak it holds, and
\* the entry it submitted is awaited
C21_Witness ==
    \E o \in Orders : \E i \in 1..Len(slots) :
        /\ o.slot_id = slots[i].id
        /\ o.origin = "tick"
        /\ slots[i].direction = "Long"
        /\ slots[i].trades # << >>
        /\ o.price = prices[slots[i].symbol]
        /\ o.price < slots[i].price_peak

\* a Long position of one trade of quantity 1 at 100, whose peak is 110
PeakScenario(s) ==
    /\ s.direction = "Long"
    /\ Len(s.trades) = 1
    /\ s.trades[1].cost = 1000
    /\ s.trades[1].quantity = 1
    /\ s.price_peak = 1100

\* C22 as stated: with a Long position of average cost 100, trailing_tp_pct 2
\* and price_peak 110, should_trailing_tp is true at the price 107.9.
C22_TrailingAt1079 ==
    \A i \in 1..Len(slots) :
        PeakScenario(slots[i]) => should_trailing_tp_pct(slots[i], 1079, 2)

\* C22, amended: with that position, trailing_tp_pct 2 and price_peak 110,
\* should_trailing_tp is false at 107.9, which is 1.909% below the peak, and
\* true at 107.8, which is 2% below it.
C22_TrailingAt1078 ==
    \A i \in 1..Len(slots) :
        PeakScenario(slots[i]) =>
            /\ ~should_trailing_tp_pct(slots[i], 1079, 2)
            /\ should_trailing_tp_pct(slots[i], 1078, 2)

\* the position has seen 110 and the price is now 107.9
C22_Witness ==
    /\ PeakScenario(slots[1])
    /\ prices[slots[1].symbol] = 1079

\* the cost and the quantity of the first n trades, added up by position
RECURSIVE CostTo(_, _)
CostTo(ts, n) == IF n = 0 THEN 0 ELSE CostTo(ts, n - 1) + ts[n].cost

RECURSIVE QuantityTo(_, _)
QuantityTo(ts, n) == IF n = 0 THEN 0 ELSE QuantityTo(ts, n - 1) + ts[n].quantity

\* entries at 100, 95 and 90, of quantity 1 each
ThreeEntries(s) ==
    /\ Len(s.trades) = 3
    /\ \A k \in 1..3 : s.trades[k].quantity = 1
    /\ s.trades[1].cost = 1000 /\ s.trades[2].cost = 950 /\ s.trades[3].cost = 900

\* C24: the position metrics follow from the trade list alone: with no trades
\* average_cost, total_invested, total_quantity, pnl and pnl_pct are 0; with
\* trades total_invested is the sum of the costs, total_quantity the sum of
\* the quantities and average_cost their quotient; entries at 100, 95 and 90
\* of quantity 1 give 95, 285 and 3.
C24_MetricsFromTrades ==
    \A i \in 1..Len(slots) :
        LET s == slots[i]
            n == Len(s.trades)
            avg == average_cost(s)
        IN  /\ n = 0 =>
                  /\ avg[1] = 0
                  /\ total_invested(s) = 0
                  /\ total_quantity(s) = 0
                  /\ \A p \in MetricPrices : pnl(s, p) = 0 /\ pnl_pct(s, p) = 0
            /\ n > 0 =>
                  /\ total_invested(s) = CostTo(s.trades, n)
                  /\ total_quantity(s) = QuantityTo(s.trades, n)
                  /\ avg[2] > 0
                  /\ avg[1] * QuantityTo(s.trades, n) = CostTo(s.trades, n) * avg[2]
            /\ ThreeEntries(s) =>
                  /\ avg[1] = 950 * avg[2]
                  /\ total_invested(s) = 2850
                  /\ total_quantity(s) = 3

\* the three entries are recorded and a price is known
C24_Witness ==
    /\ ThreeEntries(slots[1])
    /\ prices[slots[1].symbol] > 0

\* pnl in thousandths follows the formula of the claim at every price
PnlFormula(s) ==
    LET C == CostTo(s.trades, Len(s.trades))
        Q == QuantityTo(s.trades, Len(s.trades))
    IN  \A p \in MetricPrices :
           pnl(s, p) = IF s.direction = "Long" THEN Q * p * 999 - C * 1000
                       ELSE C * 1000 - Q * p * 1001

\* C25 as stated: pnl(price) is quantity * price * 0.999 - invested for Long
\* and invested - quantity * price * 1.001 for Short, and for three Long
\* entries at 100, 95 and 90 of quantity 1 the pnl at 104.5 is 28.815.
C25_PnlIs28815 ==
    \A i \in 1..Len(slots) :
        /\ PnlFormula(slots[i])
        /\ (ThreeEntries(slots[i]) /\ slots[i].direction = "Long") =>
              pnl(slots[i], 1045) = 288150

\* C25, amended: pnl(price) is quantity * price * 0.999 - invested for Long
\* and invested - quantity * price * 1.001 for Short, and for three Long
\* entries at 100, 95 and 90 of quantity 1 the pnl at 104.5 is 28.1865
\* (313.1865 - 285).
C25_PnlIs281865 ==
    \A i \in 1..Len(slots) :
        /\ PnlFormula(slots[i])
        /\ (ThreeEntries(slots[i]) /\ slots[i].direction = "Long") =>
              pnl(slots[i], 1045) = 281865

\* the three Long entries are recorded and the price is 104.5
C25_Witness ==
    /\ ThreeEntries(slots[1])
    /\ slots[1].direction = "Long"
    /\ prices[slots[1].symbol] = 1045

\* the same trades held as a position of direction d
Held(s, d) == [s EXCEPT !.direction = d]

\* quantity times the mirrored price of p: the price as far from the average
\* cost as p, on the other side of it (2 * average - p)
MirrorValue(s, p) == 2 * total_invested(s) - total_quantity(s) * p

\* the mirrored price of p is a price of the model's grid
HasMirror(s, p) ==
    /\ s.trades # << >>
    /\ MirrorValue(s, p) > 0
    /\ MirrorValue(s, p) % total_quantity(s) = 0

Mirror(s, p) == MirrorValue(s, p) \div total_quantity(s)

\* C26 as stated: for a fixed trade list and price, pnl computed as Long at
\* the price is the negation of pnl computed as Short at the mirrored price.
C26_MirrorNegates ==
    \A i \in 1..Len(slots) : \A p \in MetricPrices :
        HasMirror(slots[i], p) =>
            pnl(Held(slots[i], "Long"), p)
               = 0 - pnl(Held(slots[i], "Short"), Mirror(slots[i], p))

\* C26, amended: for a fixed trade list and price, pnl computed as Long at
\* the price and pnl computed as Short at the mirrored price are both the
\* gross gain quantity * (price - average cost) less 0.1% of the value
\* closed, quantity * price for Long and quantity * mirrored price for Short:
\* they are equal, not negated, up to the difference of the closing fees.
C26_MirrorEqualGross ==
    \A i \in 1..Len(slots) : \A p \in MetricPrices :
        HasMirror(slots[i], p) =>
            LET C == total_invested(slots[i])
                Q == total_quantity(slots[i])
                gross == (Q * p - C) * 1000
            IN  /\ pnl(Held(slots[i], "Long"), p) = gross - Q * p
                /\ pnl(Held(slots[i], "Short"), Mirror(slots[i], p))
                      = gross - Q * Mirror(slots[i], p)

\* a position sees a price away from its average cost whose mirrored price
\* is on the grid
C26_Witness ==
    /\ prices[slots[1].symbol] > 0
    /\ HasMirror(slots[1], prices[slots[1].symbol])
    /\ Mirror(slots[1], prices[slots[1].symbol]) # prices[slots[1].symbol]

\* C23: should_trailing_tp is true only if the running extreme has moved
\* into profit relative to the average cost (price_peak above it for Long,
\* price_trough below it for Short) and the net pnl_pct at the current price
\* is above 0.05, so never at a price whose net pnl is a loss; with average
\* cost 100 and a peak of 101 it is false at the price 99.
C23_TrailingOnlyInProfit ==
    \A i \in 1..Len(slots) : \A pct \in TrailingPcts :
        LET s == slots[i]
            C == total_invested(s)
            Q == total_quantity(s)
        IN  /\ \A p \in MetricPrices :
                  should_trailing_tp_pct(s, p, pct) =>
                     /\ s.direction = "Long" => s.price_peak * Q > C
                     /\ s.direction = "Short" =>
                           s.price_trough # PriceTroughUnset /\ s.price_trough * Q < C
                     /\ pnl(s, p) * 2 > C      \* pnl / C * 100 > 0.05, pnl in thousandths
                     /\ pnl(s, p) > 0
            /\ (s.direction = "Long" /\ s.trades # << >> /\ C = 1000 * Q
                                     /\ s.price_peak = 1010) =>
                  ~should_trailing_tp_pct(s, 990, pct)

\* a Long position whose peak is 10% above its average cost sees a price
\* below that cost, a retracement beyond every trailing percentage
C23_Witness ==
    /\ slots[1].direction = "Long"
    /\ slots[1].trades # << >>
    /\ total_invested(slots[1]) = 1000 * total_quantity(slots[1])
    /\ slots[1].price_peak = 1100
    /\ prices[slots[1].symbol] = 990
    /\ \A pct \in TrailingPcts :
          (slots[1].price_peak - 990) * 100 >= pct * slots[1].price_peak

\* the row an event gives on its own, on a table that holds no row for its
\* symbol: the price, and the other columns
PriceOf(event) == close_f64(event)

Row24hOf(event) ==
    [change_24h_pct |-> change_pct(event),
     high_24h |-> parse_or(event.high_price, Row24hDefault.high_24h),
     low_24h |-> parse_or(event.low_price, Row24hDefault.low_24h)]

\* C27: processing a price event for a symbol overwrites the row of that
\* symbol with the values of the event, so that the row is that of the event
\* last processed whatever came before it, and changes no row of another
\* symbol and no slot.
C27_RowIsLastEvent ==
    [][\A event \in TickerEvents :
          RecvTickerEvent(event) =>
             /\ prices'[event.symbol] = PriceOf(event)
             /\ prices_24h'[event.symbol] = Row24hOf(event)
             /\ \A sym \in DOMAIN prices :
                   sym # event.symbol =>
                      prices'[sym] = prices[sym] /\ prices_24h'[sym] = prices_24h[sym]
             /\ slots' = slots]_vars

(* C28: an iteration of the alert engine adds a support alert only when the  *)
(* price it saw last was at or above the support and the current price is    *)
(* below it, a resistance alert only when the price it saw last was at or    *)
(* below the resistance and the current price is above it; an alert it adds  *)
(* is at least the cooldown later than every earlier alert of the same kind  *)
(* for the symbol; and it writes only the alert-level table and the log.     *)
NewAlerts == {log'[i] : i \in (Len(log) + 1)..Len(log')}

OldAlerts == {log[i] : i \in 1..Len(log)}

SeenBefore(symbol) ==
    IF alert_levels[symbol] = None THEN prices[symbol]
    ELSE alert_levels[symbol][1].prev_price

C28_AlertsOnlyOnCrossing ==
    [][\A i \in 1..Len(slots), klines \in Klines :
          AlertIteration(slots[i].symbol, klines) =>
             /\ \A a \in NewAlerts :
                   /\ a.symbol = slots[i].symbol
                   /\ a.kind = "support" =>
                         /\ SeenBefore(a.symbol) >= support_of(klines)
                         /\ prices[a.symbol] < support_of(klines)
                   /\ a.kind = "resistance" =>
                         /\ SeenBefore(a.symbol) <= resistance_of(klines)
                         /\ prices[a.symbol] > resistance_of(klines)
                   /\ \A b \in OldAlerts :
                         (b.symbol = a.symbol /\ b.kind = a.kind) =>
                            a.at - b.at >= cooldown_minutes
             /\ Len(log') >= Len(log)
             /\ SubSeq(log', 1, Len(log)) = log
             /\ UNCHANGED <<slots, selected_slot, prices, ui_mode, next_slot_id,
                            cmdq, now, pc, tickIds, inflight, snapshot, halt,
                            config, prices_24h>>]_vars

\* two support alerts for the symbol in the log, the second after a crossing
\* that happened once the cooldown had passed, and a resistance alert as well
C28_Witness ==
    /\ \E i, j \in 1..Len(log) :
          /\ i < j
          /\ log[i].kind = "support" /\ log[j].kind = "support"
          /\ log[i].symbol = log[j].symbol
    /\ \E i \in 1..Len(log) : log[i].kind = "resistance"

\* the step is the handling of an order's result
IsOrderResult ==
    /\ pc = "order"
    /\ prices' = prices
    /\ cmdq' = cmdq
    /\ now' = now
    /\ (OrderOk \/ OrderErr)

\* the ids the engine's loop has in front of it when the step begins
IdsAhead ==
    IF pc = "select" THEN SlotIds(slots)
    ELSE IF Head(inflight).origin = "tick" THEN tickIds
    ELSE << >>

\* the slot with this id is evaluated by the step
EvaluatedInStep(id) ==
    \E k \in 1..(Len(IdsAhead) - Len(tickIds')) : IdsAhead[k] = id

\* the slot whose order's result the step handles
HandledInStep(id) == pc = "order" /\ Head(inflight).slot_id = id

(* C29: in a step of the engine (a strategy tick, or the handling of an      *)
(* order's result, filled or failed, followed by the rest of the tick) a     *)
(* slot other than the one whose order is handled ends as its own evaluation *)
(* with the current price leaves it if the step evaluates it, and unchanged  *)
(* if not, whatever happened to the other slot; and when the order of a slot *)
(* fails, the next slot of the tick is still evaluated in that step and the  *)
(* order it decides on is submitted.                                         *)
C29_SlotIsolation ==
    [][(IsStrategyTick \/ IsOrderResult) =>
          /\ Len(slots') = Len(slots)
          /\ \A i \in 1..Len(slots) :
                LET b == slots[i]
                    r == evaluate_slot(b, prices[b.symbol], now)
                IN  ~HandledInStep(b.id) =>
                       IF EvaluatedInStep(b.id)
                       THEN slots'[i] = r.slot
                       ELSE slots'[i] = b
          /\ (pc = "order" /\ OrderErr /\ Head(inflight).origin = "tick"
                 /\ tickIds # << >>) =>
                LET b == slot_by_id(slots, Head(tickIds))
                    r == evaluate_slot(b, prices[b.symbol], now)
                IN  /\ EvaluatedInStep(b.id)
                    /\ r.order # None =>
                          /\ pc' = "order"
                          /\ inflight' = <<r.order[1]>>]_vars

\* the first slot was halted by an entry that failed (the file still says
\* Running) and the order of the second slot, decided in a tick, is awaited
C29_Witness ==
    /\ Len(slots) = 2
    /\ slots[1].state = "Idle"
    /\ snapshot[1].state = "Running"
    /\ pc = "order"
    /\ inflight # << >>
    /\ Head(inflight).origin = "tick"
    /\ Head(inflight).slot_id = slots[2].id
    /\ Head(inflight).kind = "ENTRY"

\* a slot, and the slots, with the cached balances left out of the picture
WithoutFunds(s) == [s EXCEPT !.base_balance = 0, !.quote_balance = 0]

AllWithoutFunds(ss) == [i \in 1..Len(ss) |-> WithoutFunds(ss[i])]

\* the slots as another answer of get_account would have left them
OtherFunds(ss) ==
    {refresh_balance(ss, Some(account)) : account \in Accounts}

\* the step is a refresh of the balances
IsRefreshBalance ==
    /\ pc = "select"
    /\ prices' = prices
    /\ cmdq' = cmdq
    /\ now' = now
    /\ inflight' = inflight
    /\ RefreshBalance

(* C30: the cached balances gate nothing.  A refresh changes the balances of *)
(* the slots and nothing else; a strategy tick from the same state with any  *)
(* other balances in the slots evaluates the same slots, submits the same    *)
(* order and leaves the same strategy fields; the handling of an order's     *)
(* result leaves the same strategy fields whatever the balances, and no step *)
(* of the engine writes a balance.                                           *)
C30_BalancesGateNothing ==
    [][/\ IsRefreshBalance =>
             /\ AllWithoutFunds(slots') = AllWithoutFunds(slots)
             /\ UNCHANGED <<selected_slot, ui_mode, next_slot_id, pc, tickIds,
                            snapshot, halt, config>>
       /\ IsStrategyTick =>
             \A ss \in OtherFunds(slots) :
                LET r == RunTick(ss, SlotIds(ss), prices, now)
                IN  /\ AllWithoutFunds(r.slots) = AllWithoutFunds(slots')
                    /\ r.rest = tickIds'
                    /\ inflight' = IF r.order = None THEN inflight
                                    ELSE Append(inflight, r.order[1])
       /\ IsOrderResult =>
             /\ \A i \in 1..Len(slots) :
                   /\ slots'[i].base_balance = slots[i].base_balance
                   /\ slots'[i].quote_balance = slots[i].quote_balance
             /\ \A ss \in OtherFunds(slots) :
                   LET o == Head(inflight)
                       s == slot_by_id(slots, o.slot_id)
                       z == slot_by_id(ss, o.slot_id)
                   IN  /\ WithoutFunds(EntryFailed(z)) = WithoutFunds(EntryFailed(s))
                       /\ WithoutFunds(CloseFailed(z)) = WithoutFunds(CloseFailed(s))
                       /\ WithoutFunds(EntryFilled(z, o, now))
                             = WithoutFunds(EntryFilled(s, o, now))
                       /\ WithoutFunds(StopLossFilled(z))
                             = WithoutFunds(StopLossFilled(s))
                       /\ WithoutFunds(TakeProfitFilled(z, o.d.auto_restart,
                                                        o.d.auto_flip, now))
                             = WithoutFunds(TakeProfitFilled(s, o.d.auto_restart,
                                                             o.d.auto_flip, now))]_vars

\* a Long slot whose cached quote balance, refreshed from the account, is
\* below the amount of an entry, and the entry decided in a tick is awaited
C30_Witness ==
    /\ pc = "order"
    /\ inflight # << >>
    /\ Head(inflight).kind = "ENTRY"
    /\ Head(inflight).origin = "tick"
    /\ HasSlot(slots, Head(inflight).slot_id)
    /\ LET s == slot_by_id(slots, Head(inflight).slot_id)
       IN  /\ s.direction = "Long"
           /\ s.base_balance = 5
           /\ s.quote_balance < s.quote_amount

\* what the task is about to do
NextOp(task) == IF mutex.ops[task] = << >> THEN "idle" ELSE Head(mutex.ops[task])

(* C31: no task is about to await a call of the exchange or to write a file  *)
(* while it holds the mutex, and no task is about to take the mutex while it *)
(* holds it already, on any path of the engine (handle_command,              *)
(* evaluate_slot, refresh_balance, save_all_snapshots) or of the alert       *)
(* engine.                                                                   *)
C31_LockNotHeldAcrossIo ==
    \A task \in Tasks :
        mutex.owner = task => NextOp(task) \notin IoOps \cup {"lock"}

\* the engine is about to write the snapshot file after a filled order while
\* the alert engine holds the mutex
C31_Witness ==
    /\ NextOp("engine") = "write"
    /\ Len(mutex.ops["engine"]) = 1
    /\ mutex.owner = "alerts"

(* C32: once main has built the registry, the slot list is never empty,      *)
(* whatever commands the UI has queued.                                      *)
C32_NeverEmpty == pc # "boot" => Len(slots) >= 1

(* C33: the order a ConfirmCloseNow submits closes the position of the slot  *)
(* that was selected when OpenConfirmClose opened the overlay.               *)
C33_ClosesTheConfirmedSlot ==
    [][(/\ pc = "select"
        /\ cmdq # << >>
        /\ Head(cmdq)[1] = "ConfirmCloseNow"
        /\ Len(inflight') > Len(inflight)
        /\ ConfirmCloseNow)
          => confirm_for.id = Some(inflight'[Len(inflight')].slot_id)]_vars

(* C34: while the restore prompt is open (ui_mode is RestoreSession), no     *)
(* step of the engine submits an order.                                      *)
C34_NoOrderDuringPrompt ==
    [][ui_mode[1] = "RestoreSession" => Orders' \subseteq Orders]_vars

(* C35: a slot created by the process holds at most max_orders trades, after *)
(* any interleaving of ticks, fills, start and stop commands and post-sale   *)
(* restarts.                                                                 *)
C35_TradesWithinMaxOrders ==
    \A i \in 1..Len(slots) : Len(slots[i].trades) <= max_orders

\* a slot started again by the user with max_orders trades held, an interval
\* after that start: the entry is due by time and refused by the count
C35_Witness ==
    \E i \in 1..Len(slots) :
        /\ slots[i].state = "Running"
        /\ Len(slots[i].trades) = max_orders
        /\ slots[i].last_buy_time # None
        /\ now - slots[i].last_buy_time[1] >= interval_minutes
        /\ slots[i].daily_spent + slots[i].quote_amount <= max_daily_spend
        /\ prices[slots[i].symbol] # 0
        /\ pc = "select"

(* C36: daily_spent of a slot never exceeds max_daily_spend, whatever the    *)
(* interleaving of ticks, fills and changes of the amount in the panel (a    *)
(* fill costs the quote_amount its decision read), and the first tick whose  *)
(* day differs from the slot's recorded reset day sets daily_spent to 0.     *)
C36_DailyCapAndReset ==
    /\ [](\A i \in 1..Len(slots) : slots[i].daily_spent <= max_daily_spend)
    /\ [][IsStrategyTick =>
            \A i \in 1..Len(slots) :
                (EvaluatedInStep(slots[i].id) /\ Day(now) # slots[i].last_reset_day)
                    => /\ slots'[i].daily_spent = 0
                       /\ slots'[i].last_reset_day = Day(now)]_vars

\* an amount changed in the panel, an entry filled the day before, and the
\* day's spending reset by a tick of the new day
C36_Witness ==
    \E i \in 1..Len(slots) :
        /\ slots[i].quote_amount # quote_amount
        /\ Len(slots[i].trades) >= 1
        /\ Day(now) > 1
        /\ slots[i].last_reset_day = Day(now)
        /\ slots[i].daily_spent = 0

(* C37: the direction of a slot never changes while its trade list is       *)
(* non-empty: a step that changes the direction of a slot leaves the slot    *)
(* with no trades (the auto-flip after a take profit or trailing take        *)
(* profit, applied after the trades were cleared).                           *)
C37_DirectionFixedWhileTradesHeld ==
    [][\A i \in 1..Len(slots), j \in 1..Len(slots') :
          (slots[i].id = slots'[j].id /\ slots'[j].direction # slots[i].direction)
              => slots'[j].trades = << >>]_vars

\* a flag the user toggled, a flip after a take profit, and an entry filled
\* under the new direction
C37_Witness ==
    /\ pc = "select"
    /\ \E i \in 1..Len(slots) :
          /\ slots[i].direction # config.direction
          /\ slots[i].auto_flip # config.auto_flip
          /\ slots[i].trades # << >>

(* C38: in every reachable state a slot in MaxOrdersReached holds at least  *)
(* max_orders trades, also after a manual close, a stop loss or a take       *)
(* profit performed while the slot was in MaxOrdersReached.                  *)
C38_MaxOrdersReachedHoldsTrades ==
    \A i \in 1..Len(slots) :
        slots[i].state = "MaxOrdersReached" => Len(slots[i].trades) >= max_orders

(* C39: for positive stop_loss_pct and take_profit_pct, should_stop_loss    *)
(* and should_take_profit are never both true for the same strategy and      *)
(* price, Long or Short.                                                     *)
C39_StopLossExcludesTakeProfit ==
    \A i \in 1..Len(slots), sl \in StopLossPcts, tp \in TakeProfitPcts :
        ~(/\ should_stop_loss_pct(slots[i], prices[slots[i].symbol], sl)
          /\ should_take_profit_pct(slots[i], prices[slots[i].symbol], tp))

\* a Short position of two fills at a price where the stop loss fires for
\* the smallest percentage and not for the largest, and another price where
\* the take profit does
C39_Witness ==
    /\ slots[1].direction = "Short"
    /\ Len(slots[1].trades) = 2
    /\ should_stop_loss_pct(slots[1], prices[slots[1].symbol], 1)
    /\ ~should_stop_loss_pct(slots[1], prices[slots[1].symbol], 10)
    /\ \E p \in MetricPrices : should_take_profit_pct(slots[1], p, 5)

\* the slot with this id is Running with fewer than max_orders trades, its
\* daily_spent plus quote_amount within the cap, the interval elapsed since
\* its last entry time, and a non-zero price of its symbol
EntryDueByTime(id) ==
    \E i \in 1..Len(slots) :
        /\ slots[i].id = id
        /\ slots[i].state = "Running"
        /\ Len(slots[i].trades) < max_orders
        /\ slots[i].daily_spent + slots[i].quote_amount <= max_daily_spend
        /\ slots[i].last_buy_time # None
        /\ now - slots[i].last_buy_time[1] >= interval_minutes
        /\ prices[slots[i].symbol] # 0

\* an entry order of the slot with this id is submitted
EntrySubmitted(id) ==
    \E k \in 1..Len(inflight) :
        inflight[k].kind = "ENTRY" /\ inflight[k].slot_id = id

LiveIds == {0, 1}

(* C40: under fair firing of the strategy tick, with a non-zero price and    *)
(* every order filled, a slot that stays Running with fewer than max_orders  *)
(* trades and daily_spent + quote_amount within the daily cap submits an     *)
(* entry order eventually once the entry interval has elapsed since its last *)
(* entry time: from a state where the entry is due, either the entry order   *)
(* is submitted or the slot stops being in that condition.                   *)
C40_EntryEventually ==
    \A id \in LiveIds : EntryDueByTime(id) ~> (EntrySubmitted(id) \/ ~EntryDueByTime(id))

\* the entry order of the second strategy in flight, submitted by the tick
\* that found it due
C40_Witness ==
    /\ pc = "order"
    /\ EntrySubmitted(1)
    /\ EntryDueByTime(1)
    /\ Head(inflight).d.should_entry

====
